---- MODULE Spec2Model ----
(***************************************************************************)
(* Conversion orchestration of aepoconvert: the zustand conversion store   *)
(* (src/src/store/conversion-store.ts), the part of the format registry    *)
(* its addFiles uses, and the execution boundary (worker client, worker,   *)
(* main-thread dispatcher) as the store observes it: progress events and   *)
(* one terminal result per invocation.                                     *)
(*                                                                         *)
(* One step of the model is one task of the browser's event loop together  *)
(* with the microtasks it triggers: a store command, or the delivery of    *)
(* one worker message / the resumption of one awaited engine call.         *)
(***************************************************************************)
EXTENDS Integers, Sequences, FiniteSets, TLC

VARIABLES
    files,            \* ConversionState.files, a sequence of ConvertibleFile
    isConverting,     \* ConversionState.isConverting
    globalSettings,   \* ConversionState.globalSettings
    nextId,           \* number of ids generateId has handed out, plus one
    runs,             \* startConversion calls that have not returned yet: their
                      \* settings snapshot, the ids of pendingFiles, and the
                      \* invocations still in flight
    workerSupported,  \* typeof Worker !== 'undefined' in this environment
    session,          \* one convertWithWorkerFallback invocation followed step by
                      \* step: the client's promise, the Worker and its script
    loader,           \* module state of one engine loader and its callers
    call,             \* the last call of an entry point that is followed as a
                      \* function of its arguments, with what it returned
    ffmpeg            \* the shared FFmpeg instance: its virtual filesystem, the
                      \* clock behind Date.now() and the convertAudio calls on it

\* The variables of the store and of its environment.
storeVars == <<files, isConverting, globalSettings, nextId, runs, workerSupported>>

vars == <<files, isConverting, globalSettings, nextId, runs, workerSupported,
          session, loader, call, ffmpeg>>

----------------------------------------------------------------------------
\* Bounds of the model

\* Number of tasks created during one behaviour (caps generateId).
MaxIds == 2
\* Largest number of files handed to one addFiles call.
MaxBatch == 2

Ids == 1..MaxIds

\* Number of initialize calls made on one engine loader during one behaviour.
MaxCalls == 3

----------------------------------------------------------------------------
\* JavaScript values

Null == "<null>"
Undefined == "<undefined>"

\* `x` used as a condition, for string | null | undefined.
Truthy(x) == x \notin {Null, Undefined, ""}

\* a || b
OrElse(a, b) == IF Truthy(a) THEN a ELSE b

\* String.prototype.toLowerCase on the strings that occur in the model.
ToLowerCase(s) ==
    CASE s = "PNG" -> "png"
      [] s = "JPG" -> "jpg"
      [] s = "WAV" -> "wav"
      [] s = "PDF" -> "pdf"
      [] OTHER -> s

\* Array.prototype.includes / find on sequences.
\* String.prototype.replace(/^\./, '') on the strings that occur in the model.
StripLeadingDot(s) ==
    CASE s = ".png" -> "png"
      [] OTHER -> s

Includes(seq, x) == \E i \in 1..Len(seq) : seq[i] = x

\* find / findIndex: the least of the positions that pass the test, 0 for
\* none.
FirstOf(positions) ==
    IF positions = {} THEN 0
    ELSE CHOOSE i \in positions : \A j \in positions : i <= j

\* Faulty Object.assign: of the keys of updates only status is copied.
ObjectAssign_StatusOnly(target, updates) ==
    [k \in DOMAIN target |->
        IF k \in DOMAIN updates /\ k = "status" THEN updates[k] ELSE target[k]]

\* Object.assign(target, updates): own keys of updates overwrite target's.
ObjectAssign(target, updates) ==
    [k \in DOMAIN target |-> IF k \in DOMAIN updates THEN updates[k] ELSE target[k]]

----------------------------------------------------------------------------
\* Format registry: every descriptor of the three format files

COMMON_OUTPUT_FORMATS ==
    <<"png", "jpeg", "webp", "gif", "bmp", "tiff", "avif", "jxl", "ico">>

PNG == [name |-> "PNG", extensions |-> <<"png">>, mimeTypes |-> <<"image/png">>,
        category |-> "image", canConvertTo |-> <<"jpeg", "webp", "gif", "bmp", "tiff", "avif", "jxl", "ico">>]
JPEG == [name |-> "JPEG", extensions |-> <<"jpeg", "jpg">>, mimeTypes |-> <<"image/jpeg">>,
         category |-> "image", canConvertTo |-> <<"png", "webp", "gif", "bmp", "tiff", "avif", "jxl", "ico">>]

IMAGE_FORMATS ==
    <<
      PNG,
      JPEG,
      [name |-> "WebP", extensions |-> <<"webp">>, mimeTypes |-> <<"image/webp">>,
       category |-> "image", canConvertTo |-> <<"png", "jpeg", "gif", "bmp", "tiff", "avif", "jxl", "ico">>],
      [name |-> "GIF", extensions |-> <<"gif">>, mimeTypes |-> <<"image/gif">>,
       category |-> "image", canConvertTo |-> <<"png", "jpeg", "webp", "bmp", "tiff", "avif", "jxl">>],
      [name |-> "BMP", extensions |-> <<"bmp">>, mimeTypes |-> <<"image/bmp", "image/x-bmp">>,
       category |-> "image", canConvertTo |-> <<"png", "jpeg", "webp", "gif", "tiff", "avif", "jxl", "ico">>],
      [name |-> "TIFF", extensions |-> <<"tiff", "tif">>, mimeTypes |-> <<"image/tiff">>,
       category |-> "image", canConvertTo |-> <<"png", "jpeg", "webp", "gif", "bmp", "avif", "jxl">>],
      [name |-> "ICO", extensions |-> <<"ico">>, mimeTypes |-> <<"image/x-icon", "image/vnd.microsoft.icon">>,
       category |-> "image", canConvertTo |-> <<"png", "jpeg", "webp", "bmp", "gif">>],
      [name |-> "SVG", extensions |-> <<"svg">>, mimeTypes |-> <<"image/svg+xml">>,
       category |-> "image", canConvertTo |-> <<"png", "jpeg", "webp", "gif", "bmp", "tiff">>],
      [name |-> "AVIF", extensions |-> <<"avif">>, mimeTypes |-> <<"image/avif">>,
       category |-> "image", canConvertTo |-> <<"png", "jpeg", "webp", "gif", "bmp", "tiff", "jxl">>],
      [name |-> "JPEG XL", extensions |-> <<"jxl">>, mimeTypes |-> <<"image/jxl">>,
       category |-> "image", canConvertTo |-> <<"png", "jpeg", "webp", "gif", "bmp", "tiff", "avif">>],
      [name |-> "HEIC", extensions |-> <<"heic">>, mimeTypes |-> <<"image/heic">>,
       category |-> "image", canConvertTo |-> COMMON_OUTPUT_FORMATS],
      [name |-> "HEIF", extensions |-> <<"heif">>, mimeTypes |-> <<"image/heif">>,
       category |-> "image", canConvertTo |-> COMMON_OUTPUT_FORMATS],
      [name |-> "PSD", extensions |-> <<"psd">>, mimeTypes |-> <<"image/vnd.adobe.photoshop", "application/x-photoshop">>,
       category |-> "image", canConvertTo |-> COMMON_OUTPUT_FORMATS],
      [name |-> "NEF (Nikon RAW)", extensions |-> <<"nef">>, mimeTypes |-> <<"image/x-nikon-nef">>,
       category |-> "image", canConvertTo |-> COMMON_OUTPUT_FORMATS],
      [name |-> "CR2 (Canon RAW)", extensions |-> <<"cr2">>, mimeTypes |-> <<"image/x-canon-cr2">>,
       category |-> "image", canConvertTo |-> COMMON_OUTPUT_FORMATS],
      [name |-> "CR3 (Canon RAW)", extensions |-> <<"cr3">>, mimeTypes |-> <<"image/x-canon-cr3">>,
       category |-> "image", canConvertTo |-> COMMON_OUTPUT_FORMATS],
      [name |-> "ARW (Sony RAW)", extensions |-> <<"arw">>, mimeTypes |-> <<"image/x-sony-arw">>,
       category |-> "image", canConvertTo |-> COMMON_OUTPUT_FORMATS],
      [name |-> "DNG (Adobe RAW)", extensions |-> <<"dng">>, mimeTypes |-> <<"image/x-adobe-dng">>,
       category |-> "image", canConvertTo |-> COMMON_OUTPUT_FORMATS],
      [name |-> "ORF (Olympus RAW)", extensions |-> <<"orf">>, mimeTypes |-> <<"image/x-olympus-orf">>,
       category |-> "image", canConvertTo |-> COMMON_OUTPUT_FORMATS],
      [name |-> "RAF (Fujifilm RAW)", extensions |-> <<"raf">>, mimeTypes |-> <<"image/x-fuji-raf">>,
       category |-> "image", canConvertTo |-> COMMON_OUTPUT_FORMATS],
      [name |-> "RW2 (Panasonic RAW)", extensions |-> <<"rw2">>, mimeTypes |-> <<"image/x-panasonic-rw2">>,
       category |-> "image", canConvertTo |-> COMMON_OUTPUT_FORMATS],
      [name |-> "PEF (Pentax RAW)", extensions |-> <<"pef">>, mimeTypes |-> <<"image/x-pentax-pef">>,
       category |-> "image", canConvertTo |-> COMMON_OUTPUT_FORMATS],
      [name |-> "SRW (Samsung RAW)", extensions |-> <<"srw">>, mimeTypes |-> <<"image/x-samsung-srw">>,
       category |-> "image", canConvertTo |-> COMMON_OUTPUT_FORMATS],
      [name |-> "ERF (Epson RAW)", extensions |-> <<"erf">>, mimeTypes |-> <<"image/x-epson-erf">>,
       category |-> "image", canConvertTo |-> COMMON_OUTPUT_FORMATS],
      [name |-> "NRW (Nikon RAW)", extensions |-> <<"nrw">>, mimeTypes |-> <<"image/x-nikon-nrw">>,
       category |-> "image", canConvertTo |-> COMMON_OUTPUT_FORMATS],
      [name |-> "KDC (Kodak RAW)", extensions |-> <<"kdc">>, mimeTypes |-> <<"image/x-kodak-kdc">>,
       category |-> "image", canConvertTo |-> COMMON_OUTPUT_FORMATS],
      [name |-> "DCR (Kodak RAW)", extensions |-> <<"dcr">>, mimeTypes |-> <<"image/x-kodak-dcr">>,
       category |-> "image", canConvertTo |-> COMMON_OUTPUT_FORMATS],
      [name |-> "MRW (Minolta RAW)", extensions |-> <<"mrw">>, mimeTypes |-> <<"image/x-minolta-mrw">>,
       category |-> "image", canConvertTo |-> COMMON_OUTPUT_FORMATS],
      [name |-> "3FR (Hasselblad RAW)", extensions |-> <<"3fr">>, mimeTypes |-> <<"image/x-hasselblad-3fr">>,
       category |-> "image", canConvertTo |-> COMMON_OUTPUT_FORMATS],
      [name |-> "X3F (Sigma RAW)", extensions |-> <<"x3f">>, mimeTypes |-> <<"image/x-sigma-x3f">>,
       category |-> "image", canConvertTo |-> COMMON_OUTPUT_FORMATS],
      [name |-> "TGA", extensions |-> <<"tga">>, mimeTypes |-> <<"image/x-tga", "image/x-targa">>,
       category |-> "image", canConvertTo |-> COMMON_OUTPUT_FORMATS],
      [name |-> "PCX", extensions |-> <<"pcx">>, mimeTypes |-> <<"image/x-pcx">>,
       category |-> "image", canConvertTo |-> COMMON_OUTPUT_FORMATS],
      [name |-> "PPM", extensions |-> <<"ppm">>, mimeTypes |-> <<"image/x-portable-pixmap">>,
       category |-> "image", canConvertTo |-> COMMON_OUTPUT_FORMATS],
      [name |-> "PGM", extensions |-> <<"pgm">>, mimeTypes |-> <<"image/x-portable-graymap">>,
       category |-> "image", canConvertTo |-> COMMON_OUTPUT_FORMATS],
      [name |-> "PBM", extensions |-> <<"pbm">>, mimeTypes |-> <<"image/x-portable-bitmap">>,
       category |-> "image", canConvertTo |-> COMMON_OUTPUT_FORMATS],
      [name |-> "PAM", extensions |-> <<"pam">>, mimeTypes |-> <<"image/x-portable-anymap">>,
       category |-> "image", canConvertTo |-> COMMON_OUTPUT_FORMATS],
      [name |-> "XBM", extensions |-> <<"xbm">>, mimeTypes |-> <<"image/x-xbitmap">>,
       category |-> "image", canConvertTo |-> COMMON_OUTPUT_FORMATS],
      [name |-> "XPM", extensions |-> <<"xpm">>, mimeTypes |-> <<"image/x-xpixmap">>,
       category |-> "image", canConvertTo |-> COMMON_OUTPUT_FORMATS],
      [name |-> "EXR", extensions |-> <<"exr">>, mimeTypes |-> <<"image/x-exr">>,
       category |-> "image", canConvertTo |-> COMMON_OUTPUT_FORMATS],
      [name |-> "HDR", extensions |-> <<"hdr">>, mimeTypes |-> <<"image/vnd.radiance">>,
       category |-> "image", canConvertTo |-> COMMON_OUTPUT_FORMATS]
    >>

COMMON_AUDIO_OUTPUT_FORMATS ==
    <<"mp3", "wav", "ogg", "flac", "aac", "m4a", "opus", "aiff">>

MP3 == [name |-> "MP3", extensions |-> <<"mp3">>, mimeTypes |-> <<"audio/mpeg", "audio/mp3">>,
        category |-> "audio", canConvertTo |-> <<"wav", "ogg", "flac", "aac", "m4a", "opus", "aiff", "alac">>]
WAV == [name |-> "WAV", extensions |-> <<"wav">>, mimeTypes |-> <<"audio/wav", "audio/x-wav", "audio/wave">>,
        category |-> "audio", canConvertTo |-> <<"mp3", "ogg", "flac", "aac", "m4a", "opus", "aiff", "alac">>]

AUDIO_FORMATS ==
    <<
      MP3,
      WAV,
      [name |-> "OGG Vorbis", extensions |-> <<"ogg">>, mimeTypes |-> <<"audio/ogg", "audio/vorbis">>,
       category |-> "audio", canConvertTo |-> <<"mp3", "wav", "flac", "aac", "m4a", "opus", "aiff", "alac">>],
      [name |-> "FLAC", extensions |-> <<"flac">>, mimeTypes |-> <<"audio/flac", "audio/x-flac">>,
       category |-> "audio", canConvertTo |-> <<"mp3", "wav", "ogg", "aac", "m4a", "opus", "aiff", "alac">>],
      [name |-> "AAC", extensions |-> <<"aac">>, mimeTypes |-> <<"audio/aac", "audio/x-aac">>,
       category |-> "audio", canConvertTo |-> <<"mp3", "wav", "ogg", "flac", "m4a", "opus", "aiff", "alac">>],
      [name |-> "M4A", extensions |-> <<"m4a">>, mimeTypes |-> <<"audio/m4a", "audio/x-m4a", "audio/mp4">>,
       category |-> "audio", canConvertTo |-> <<"mp3", "wav", "ogg", "flac", "aac", "opus", "aiff", "alac">>],
      [name |-> "Opus", extensions |-> <<"opus">>, mimeTypes |-> <<"audio/opus">>,
       category |-> "audio", canConvertTo |-> <<"mp3", "wav", "ogg", "flac", "aac", "m4a", "aiff", "alac">>],
      [name |-> "WMA", extensions |-> <<"wma">>, mimeTypes |-> <<"audio/x-ms-wma">>,
       category |-> "audio", canConvertTo |-> COMMON_AUDIO_OUTPUT_FORMATS],
      [name |-> "AIFF", extensions |-> <<"aiff", "aif">>, mimeTypes |-> <<"audio/aiff", "audio/x-aiff">>,
       category |-> "audio", canConvertTo |-> <<"mp3", "wav", "ogg", "flac", "aac", "m4a", "opus", "alac">>],
      [name |-> "ALAC (Apple Lossless)", extensions |-> <<"alac">>, mimeTypes |-> <<"audio/alac">>,
       category |-> "audio", canConvertTo |-> <<"mp3", "wav", "ogg", "flac", "aac", "m4a", "opus", "aiff">>]
    >>

COMMON_DOCUMENT_OUTPUT_FORMATS ==
    <<"pdf", "docx", "md", "txt", "html", "epub", "odt", "rtf", "latex", "rst", "asciidoc">>


DOCUMENT_FORMATS ==
    <<
      [name |-> "PDF", extensions |-> <<"pdf">>, mimeTypes |-> <<"application/pdf">>,
       category |-> "document", canConvertTo |-> <<"txt", "html", "md">>],
      [name |-> "DOCX (Word)", extensions |-> <<"docx">>, mimeTypes |-> <<"application/vnd.openxmlformats-officedocument.wordprocessingml.document">>,
       category |-> "document", canConvertTo |-> <<"pdf", "md", "txt", "html", "epub", "odt", "rtf", "latex", "rst", "asciidoc">>],
      [name |-> "DOC (Word 97-2003)", extensions |-> <<"doc">>, mimeTypes |-> <<"application/msword">>,
       category |-> "document", canConvertTo |-> <<"pdf", "docx", "md", "txt", "html", "epub", "odt", "rtf", "latex", "rst", "asciidoc">>],
      [name |-> "Markdown", extensions |-> <<"md", "markdown">>, mimeTypes |-> <<"text/markdown", "text/x-markdown">>,
       category |-> "document", canConvertTo |-> <<"pdf", "docx", "txt", "html", "epub", "odt", "rtf", "latex", "rst", "asciidoc">>],
      [name |-> "Plain Text", extensions |-> <<"txt">>, mimeTypes |-> <<"text/plain">>,
       category |-> "document", canConvertTo |-> <<"pdf", "docx", "md", "html", "epub", "odt", "rtf", "latex", "rst", "asciidoc">>],
      [name |-> "HTML", extensions |-> <<"html", "htm">>, mimeTypes |-> <<"text/html">>,
       category |-> "document", canConvertTo |-> <<"pdf", "docx", "md", "txt", "epub", "odt", "rtf", "latex", "rst", "asciidoc">>],
      [name |-> "EPUB", extensions |-> <<"epub">>, mimeTypes |-> <<"application/epub+zip">>,
       category |-> "document", canConvertTo |-> <<"pdf", "docx", "md", "txt", "html", "odt", "rtf", "latex", "rst", "asciidoc">>],
      [name |-> "ODT (OpenDocument)", extensions |-> <<"odt">>, mimeTypes |-> <<"application/vnd.oasis.opendocument.text">>,
       category |-> "document", canConvertTo |-> <<"pdf", "docx", "md", "txt", "html", "epub", "rtf", "latex", "rst", "asciidoc">>],
      [name |-> "RTF", extensions |-> <<"rtf">>, mimeTypes |-> <<"application/rtf", "text/rtf">>,
       category |-> "document", canConvertTo |-> <<"pdf", "docx", "md", "txt", "html", "epub", "odt", "latex", "rst", "asciidoc">>],
      [name |-> "LaTeX", extensions |-> <<"tex", "latex">>, mimeTypes |-> <<"application/x-latex", "text/x-latex">>,
       category |-> "document", canConvertTo |-> <<"pdf", "docx", "md", "txt", "html", "epub", "odt", "rtf", "rst", "asciidoc">>],
      [name |-> "reStructuredText", extensions |-> <<"rst">>, mimeTypes |-> <<"text/x-rst", "text/prs.fallenstein.rst">>,
       category |-> "document", canConvertTo |-> <<"pdf", "docx", "md", "txt", "html", "epub", "odt", "rtf", "latex", "asciidoc">>],
      [name |-> "AsciiDoc", extensions |-> <<"adoc", "asciidoc", "asc">>, mimeTypes |-> <<"text/asciidoc", "text/x-asciidoc">>,
       category |-> "document", canConvertTo |-> <<"pdf", "docx", "md", "txt", "html", "epub", "odt", "rtf", "latex", "rst">>]
    >>

ALL_FORMATS == IMAGE_FORMATS \o AUDIO_FORMATS \o DOCUMENT_FORMATS

NoFormat == [name |-> Null, extensions |-> <<>>, mimeTypes |-> <<>>,
             category |-> Null, canConvertTo |-> <<>>]

\* ALL_FORMATS.find((format) => format.extensions.includes(extension)) ?? null
FormatWithExtension(extension) ==
    LET i == FirstOf({ j \in 1..Len(ALL_FORMATS) : Includes(ALL_FORMATS[j].extensions, extension) })
    IN  IF i = 0 THEN NoFormat ELSE ALL_FORMATS[i]

\* ALL_FORMATS.find((format) => format.mimeTypes.includes(mimeType)) ?? null
FormatWithMimeType(mimeType) ==
    LET i == FirstOf({ j \in 1..Len(ALL_FORMATS) : Includes(ALL_FORMATS[j].mimeTypes, mimeType) })
    IN  IF i = 0 THEN NoFormat ELSE ALL_FORMATS[i]

\* A File is its name's suffix after the last dot ("" when the name has no
\* dot) and its MIME type.
detectFormat(file) ==
    LET extension == ToLowerCase(file.ext)
        byExtension == IF extension # "" THEN FormatWithExtension(extension) ELSE NoFormat
        mimeType == ToLowerCase(file.type)
        byMime == IF mimeType # "" THEN FormatWithMimeType(mimeType) ELSE NoFormat
    IN  IF byExtension # NoFormat THEN byExtension ELSE byMime

\* Faulty lookup: only the image registry is searched.
getFormatByExtension_ImagesOnly(ext) ==
    LET normalizedExt == StripLeadingDot(ToLowerCase(ext))
        i == FirstOf({ j \in 1..Len(IMAGE_FORMATS) : Includes(IMAGE_FORMATS[j].extensions, normalizedExt) })
    IN  IF i = 0 THEN NoFormat ELSE IMAGE_FORMATS[i]

getFormatByExtension(ext) ==
    LET normalizedExt == StripLeadingDot(ToLowerCase(ext))
    IN  FormatWithExtension(normalizedExt)

getConvertibleFormats(from) ==
    LET mapped == [i \in 1..Len(from.canConvertTo) |-> getFormatByExtension(from.canConvertTo[i])]
    IN  SelectSeq(mapped, LAMBDA format : format # NoFormat)

----------------------------------------------------------------------------
\* Store helpers

getFileExtension(file) == ToLowerCase(file.ext)

\* Faulty default: the source extension itself.
getDefaultOutputFormat_SameFormat(sourceExtension, detectedFormat) ==
    IF detectedFormat = NoFormat THEN Null ELSE sourceExtension

\* The first convertible format that does not carry the source extension,
\* else the first convertible format; its first extension.
getDefaultOutputFormat(sourceExtension, detectedFormat) ==
    IF detectedFormat = NoFormat THEN Null
    ELSE LET convertibleFormats == getConvertibleFormats(detectedFormat)
             i == FirstOf({ j \in 1..Len(convertibleFormats) :
                               ~Includes(convertibleFormats[j].extensions, sourceExtension) })
             preferredFormat == IF i # 0 THEN convertibleFormats[i] ELSE convertibleFormats[1]
         IN  IF Len(convertibleFormats) = 0 THEN Null
             ELSE IF Len(preferredFormat.extensions) = 0 THEN Null
             ELSE preferredFormat.extensions[1]

\* An optional number that is absent (bitrate: undefined).
UndefinedNumber == 0 - 1

defaultSettings ==
    [mode |-> "simple", quality |-> 80, bitrate |-> UndefinedNumber, sampleRate |-> UndefinedNumber]

\* The ConvertibleFile addFiles builds for one File.
NewFile(id, file) ==
    LET detectedFormat == detectFormat(file)
        extension == getFileExtension(file)
        normalizedFrom ==
            IF detectedFormat # NoFormat
            THEN (IF Includes(detectedFormat.extensions, extension)
                  THEN extension ELSE detectedFormat.extensions[1])
            ELSE extension
    IN  [id |-> id, from |-> normalizedFrom,
         to |-> getDefaultOutputFormat(normalizedFrom, detectedFormat),
         status |-> "pending", progress |-> 0, error |-> Null, result |-> Null]

\* state.files.find((f) => f.id === id), as an index; 0 when there is none.
IndexOfId(fs, id) == FirstOf({ j \in 1..Len(fs) : fs[j].id = id })

HasId(fs, id) == IndexOfId(fs, id) # 0

FileOfId(fs, id) == fs[IndexOfId(fs, id)]

\* The mutation `find by id, then assign these fields of that record`.
Patch(fs, id, fields) ==
    LET i == IndexOfId(fs, id)
    IN  IF i = 0 THEN fs
        ELSE [fs EXCEPT ![i] =
                [k \in DOMAIN fs[i] |-> IF k \in DOMAIN fields THEN fields[k] ELSE fs[i][k]]]

----------------------------------------------------------------------------
\* Inputs of the commands

\* Files a user drops: photo.PNG sent as application/octet-stream, and
\* notes.xyz, which no descriptor matches.
InputFiles ==
    { [ext |-> "PNG", type |-> "application/octet-stream"],
      [ext |-> "xyz", type |-> ""] }

Batches == UNION { [1..n -> InputFiles] : n \in 1..MaxBatch }

\* Formats the format selector hands to setOutputFormat.
OutputChoices == {"jpeg"}

\* Partial<ConvertibleFile> values handed to updateFile.
UpdateChoices == { [status |-> "pending"] }

\* Partial<QualitySettings> values handed to setGlobalSettings.
SettingsChoices == { [quality |-> 50, mode |-> "advanced"] }

\* Messages of engine and worker failures; an Error may carry no message.
WorkerErrors == {"", "engine failed"}
MainThreadErrors == {"Conversion failed: engine failed"}
ThrownErrors == {"rejected"}

----------------------------------------------------------------------------
\* Execution boundary, as seen from the store

\* Progress values an invocation reports, in order: the worker's
\* postProgress calls, or convert()'s onProgress calls on the main thread.
WorkerProgress == <<0, 5, 15, 100>>
MainThreadProgress == <<0, 10, 100>>

ProgressSteps(worker) == IF worker THEN WorkerProgress ELSE MainThreadProgress

FailureMessages(worker) == IF worker THEN WorkerErrors ELSE MainThreadErrors

\* The Blob an invocation converting to `to` resolves with.
BlobOf(to) == "blob." \o to

\* The request startConversion hands to convertWithWorkerFallback for one
\* selected file; `sent` counts the progress events delivered so far.
NewInvocation(file) ==
    [id |-> file.id, from |-> file.from, to |-> file.to, sent |-> 0]

\* Promise.allSettled over the run's invocations has resolved: a run holds
\* the invocations that have not settled yet.
AllSettled(run) == Len(run.invs) = 0

----------------------------------------------------------------------------
\* Store handlers as functions of the file list

\* Faulty filters: one selects everything that is not converting, one does
\* not look at the target.
IsReady_AnyStatus(file) == file.status # "converting" /\ Truthy(file.to)

IsReady_IgnoresTarget(file) == file.status = "pending"

\* pendingFiles filter of startConversion.
IsReady(file) == file.status = "pending" /\ Truthy(file.to)

\* Faulty guard: the isConverting test is missing.
CanStart_NoGuard(converting, pendingFiles) == Len(pendingFiles) # 0

\* The guards of startConversion: no run in progress, and something selected.
CanStart(converting, pendingFiles) == ~converting /\ Len(pendingFiles) # 0

\* Faulty snapshot: the defaults instead of the current global settings.
SnapshotSettings_Default(settings) == defaultSettings

\* const settings = { ...state.globalSettings }
SnapshotSettings(settings) == [k \in DOMAIN settings |-> settings[k]]

\* The first set() of startConversion, for one selected file.
MarkConverting(file) ==
    [file EXCEPT !.status = "converting", !.progress = 0, !.error = Null, !.result = Null]

\* Faulty callback: when the task is gone the first task of the list is
\* written instead.
OnProgress_FirstWhenGone(fs, id, progress) ==
    IF HasId(fs, id)
    THEN (IF FileOfId(fs, id).status = "converting"
          THEN Patch(fs, id, [progress |-> progress]) ELSE fs)
    ELSE IF Len(fs) > 0 THEN [fs EXCEPT ![1].progress = progress]
    ELSE fs

\* onProgress callback.
OnProgress(fs, id, progress) ==
    IF HasId(fs, id) /\ FileOfId(fs, id).status = "converting"
    THEN Patch(fs, id, [progress |-> progress])
    ELSE fs

\* result.error || 'Conversion failed'
ErrorMessageOf(result) == OrElse(result.error, "Conversion failed")

\* Faulty result handlers: one looks the task up by status instead of id,
\* one records successes only.
OnResult_FirstConverting(fs, id, result) ==
    LET i == FirstOf({ j \in 1..Len(fs) : fs[j].status = "converting" })
    IN  IF i = 0 THEN fs
        ELSE IF result.success /\ Truthy(result.blob)
        THEN [fs EXCEPT ![i].status = "complete", ![i].progress = 100,
                        ![i].error = Null, ![i].result = result.blob]
        ELSE [fs EXCEPT ![i].status = "error", ![i].error = ErrorMessageOf(result)]

OnResult_SuccessOnly(fs, id, result) ==
    IF result.success /\ Truthy(result.blob)
    THEN Patch(fs, id, [status |-> "complete", progress |-> 100,
                        error |-> Null, result |-> result.blob])
    ELSE fs

\* Faulty result handlers: one records the failure message without the
\* status, one marks the task complete without storing the Blob.
OnResult_MessageOnly(fs, id, result) ==
    IF result.success /\ Truthy(result.blob)
    THEN Patch(fs, id, [status |-> "complete", progress |-> 100,
                        error |-> Null, result |-> result.blob])
    ELSE Patch(fs, id, [error |-> ErrorMessageOf(result)])

OnResult_NoBlob(fs, id, result) ==
    IF result.success /\ Truthy(result.blob)
    THEN Patch(fs, id, [status |-> "complete", progress |-> 100, error |-> Null])
    ELSE Patch(fs, id, [status |-> "error", error |-> ErrorMessageOf(result)])

\* Body of runSingleConversion after the await returned `result`.
OnResult(fs, id, result) ==
    IF result.success /\ Truthy(result.blob)
    THEN Patch(fs, id, [status |-> "complete", progress |-> 100,
                        error |-> Null, result |-> result.blob])
    ELSE Patch(fs, id, [status |-> "error", error |-> ErrorMessageOf(result)])

\* catch block of runSingleConversion.
OnThrow(fs, id, errorMessage) ==
    Patch(fs, id, [status |-> "error", error |-> errorMessage])

----------------------------------------------------------------------------
\* Execution boundary: the worker script, the main-thread dispatcher and the
\* engine adapters as functions of a request and of the engine's behaviour

\* mimeType.startsWith(prefix) and mimeType.includes(word) on the MIME types
\* that occur in the model.
StartsWith(mimeType, prefix) ==
    CASE prefix = "image/" -> mimeType \in {"image/png"}
      [] prefix = "audio/" -> mimeType \in {"audio/mpeg"}
      [] prefix = "text/" -> mimeType \in {"text/markdown"}
      [] OTHER -> FALSE

StringIncludes(mimeType, word) ==
    CASE word = "document" -> FALSE
      [] word = "pdf" -> FALSE
      [] word = "markdown" -> mimeType \in {"text/markdown"}
      [] word = "html" -> FALSE
      [] OTHER -> FALSE

\* How the engine behaves during one conversion: it works, or the dynamic
\* import, the engine's initialization or the conversion itself fails.
EngineBehaviours == {"ok", "import fails", "init fails", "convert fails"}

ImportErrorMessage == "Failed to fetch dynamically imported module"
EngineErrorMessage == "engine failed"

\* The messages the loaders throw when initialization fails.
InitErrorMessage(category) ==
    CASE category = "image" -> "Failed to initialize ImageMagick: " \o EngineErrorMessage
      [] category = "audio" -> "Failed to initialize FFmpeg: " \o EngineErrorMessage
      [] category = "document" -> "Failed to initialize Pandoc: " \o EngineErrorMessage

\* The initializer of a category's engine.
InitializerOf(category) ==
    CASE category = "image" -> "initializeMagick"
      [] category = "audio" -> "initializeFFmpeg"
      [] category = "document" -> "initializePandoc"

\* Keys of the adapters' output tables.
FORMAT_MAP == {"png", "jpeg", "jpg", "webp", "gif", "bmp", "tiff", "tif", "ico", "avif", "jxl"}
FORMAT_CONFIG == {"mp3", "wav", "ogg", "flac", "aac", "m4a"}
OUTPUT_FORMAT_MAP ==
    {"md", "markdown", "html", "htm", "txt", "docx", "epub", "odt", "rtf", "tex", "latex",
     "rst", "adoc", "asciidoc", "asc", "pdf"}

\* An adapter's outcome: the Blob or the message of the Error it throws, and
\* the engine entry points it called, in order.
Returned(blob, calls) == [ok |-> TRUE, blob |-> blob, error |-> Undefined, calls |-> calls]
Thrown(message, calls) == [ok |-> FALSE, blob |-> Undefined, error |-> message, calls |-> calls]

\* convertImage(file, toFormat, quality); `ready` is checkMagickReady().
convertImage(toFormat, engine, ready) ==
    LET init == IF ready THEN <<>> ELSE <<"initializeMagick">>
    IN  IF ~ready /\ engine = "init fails" THEN Thrown(InitErrorMessage("image"), init)
        ELSE IF ToLowerCase(toFormat) \notin FORMAT_MAP
        THEN Thrown("Unsupported target format: " \o toFormat, init)
        ELSE IF engine = "convert fails"
        THEN Thrown("Image conversion failed: " \o EngineErrorMessage, init \o <<"ImageMagick.read">>)
        ELSE Returned(BlobOf(ToLowerCase(toFormat)), init \o <<"ImageMagick.read">>)

\* convertAudio(file, toFormat, settings); `ready` is whether FFmpeg is
\* memoized, in which case initializeFFmpeg returns it at once.
convertAudio(toFormat, engine, ready) ==
    IF ToLowerCase(toFormat) \notin FORMAT_CONFIG
    THEN Thrown("Unsupported output format: " \o toFormat \o ". Supported formats: mp3, wav, ogg, flac, aac, m4a", <<>>)
    ELSE IF ~ready /\ engine = "init fails"
    THEN Thrown(InitErrorMessage("audio"), <<"initializeFFmpeg">>)
    ELSE IF engine = "convert fails"
    THEN Thrown(EngineErrorMessage, <<"initializeFFmpeg", "ffmpeg.exec">>)
    ELSE Returned(BlobOf(ToLowerCase(toFormat)), <<"initializeFFmpeg", "ffmpeg.exec">>)

\* The refusal of a PDF target by convertDocument.
PdfNotSupportedMessage ==
    "PDF output is not supported in browser-based conversion. Please convert to HTML or another format first."

\* convertDocument(file, toFormat).
convertDocument(toFormat, engine, ready) ==
    IF ToLowerCase(toFormat) \notin OUTPUT_FORMAT_MAP
    THEN Thrown("Unsupported output format: " \o toFormat \o ". Supported formats: md, markdown, html, htm, txt, docx, epub, odt, rtf, tex, latex, rst, adoc, asciidoc, asc, pdf", <<>>)
    ELSE IF ToLowerCase(toFormat) = "pdf"
    THEN Thrown(PdfNotSupportedMessage, <<>>)
    ELSE IF ~ready /\ engine = "init fails"
    THEN Thrown(InitErrorMessage("document"), <<"initializePandoc">>)
    ELSE IF engine = "convert fails"
    THEN Thrown("Document conversion failed: " \o EngineErrorMessage, <<"initializePandoc", "pandoc.run">>)
    ELSE Returned(BlobOf(ToLowerCase(toFormat)), <<"initializePandoc", "pandoc.run">>)

\* The switch on the category, in the worker and in convert().
ConvertBy(category, toFormat, engine, ready) ==
    CASE category = "image" -> convertImage(toFormat, engine, ready)
      [] category = "audio" -> convertAudio(toFormat, engine, ready)
      [] category = "document" -> convertDocument(toFormat, engine, ready)

\* The worker's extension lists.
imageExtensions ==
    <<"png", "jpg", "jpeg", "webp", "gif", "bmp", "tiff", "tif", "ico", "svg",
      "avif", "heic", "heif", "jxl", "psd", "raw", "nef", "cr2", "cr3", "arw",
      "dng", "orf", "raf", "rw2", "pef", "srw", "tga", "exr", "hdr">>
audioExtensions ==
    <<"mp3", "wav", "ogg", "flac", "aac", "m4a", "opus", "wma", "aiff", "aif", "alac">>
documentExtensions ==
    <<"pdf", "docx", "doc", "md", "markdown", "txt", "html", "htm", "epub",
      "odt", "rtf", "tex", "latex", "rst", "adoc", "asciidoc", "asc">>

\* No category: the detectCategory functions throw.
NoCategory == Null

\* detectCategory(from, mimeType) of the worker.
WorkerDetectCategory(from, mimeType) ==
    LET ext == StripLeadingDot(ToLowerCase(from))
    IN  IF Includes(imageExtensions, ext) THEN "image"
        ELSE IF Includes(audioExtensions, ext) THEN "audio"
        ELSE IF Includes(documentExtensions, ext) THEN "document"
        ELSE IF StartsWith(mimeType, "image/") THEN "image"
        ELSE IF StartsWith(mimeType, "audio/") THEN "audio"
        ELSE IF \/ StartsWith(mimeType, "text/")
                \/ StringIncludes(mimeType, "document")
                \/ StringIncludes(mimeType, "pdf")
        THEN "document"
        ELSE NoCategory

\* detectCategory(file) of the main-thread dispatcher.
detectCategory(file) ==
    LET formatInfo == detectFormat(file)
        mimeType == ToLowerCase(file.type)
    IN  IF formatInfo # NoFormat THEN formatInfo.category
        ELSE IF StartsWith(mimeType, "image/") THEN "image"
        ELSE IF StartsWith(mimeType, "audio/") THEN "audio"
        ELSE IF \/ StartsWith(mimeType, "text/")
                \/ StringIncludes(mimeType, "document")
                \/ StringIncludes(mimeType, "pdf")
                \/ StringIncludes(mimeType, "markdown")
                \/ StringIncludes(mimeType, "html")
        THEN "document"
        ELSE NoCategory

\* file.name of a File of the model.
NameOf(file) == IF file.ext = "" THEN "file" ELSE "file." \o file.ext

\* Events of one invocation: worker messages, or on the main thread the
\* onProgress calls and the way convert() ends.
ProgressMessage(progress) == [type |-> "progress", progress |-> progress]
CompleteMessage(blob) == [type |-> "complete", blob |-> blob]
ErrorMessage(error) == [type |-> "error", error |-> error]

\* What one run does: the events of each of its tasks (the stretches between
\* two awaits), and the engine entry points it called.
RunOf(tasks, calls) == [tasks |-> tasks, calls |-> calls]

\* Faulty worker script: 100 is posted before the adapter is called.
handleConvert_EarlyHundred(request, engine) ==
    LET category == WorkerDetectCategory(request.from, request.file.type)
        r == ConvertBy(category, request.to, engine, TRUE)
    IN  IF category = NoCategory
        THEN RunOf(<< <<ErrorMessage("Unable to detect format category for extension: " \o request.from)>> >>,
                   <<>>)
        ELSE RunOf(<< <<ProgressMessage(0)>>, <<ProgressMessage(5)>>,
                      <<ProgressMessage(15), ProgressMessage(100)>>,
                      IF r.ok THEN <<CompleteMessage(r.blob)>> ELSE <<ErrorMessage(r.error)>> >>,
                   <<InitializerOf(category)>> \o r.calls)

\* handleConvert(message) of the worker, started in a fresh worker where no
\* engine is initialized yet.
handleConvert(request, engine) ==
    LET category == WorkerDetectCategory(request.from, request.file.type)
        r == ConvertBy(category, request.to, engine, TRUE)
    IN  IF category = NoCategory
        THEN RunOf(<< <<ErrorMessage("Unable to detect format category for extension: " \o request.from)>> >>,
                   <<>>)
        ELSE IF engine = "import fails"
        THEN RunOf(<< <<ProgressMessage(0)>>, <<ErrorMessage(ImportErrorMessage)>> >>, <<>>)
        ELSE IF engine = "init fails"
        THEN RunOf(<< <<ProgressMessage(0)>>, <<ProgressMessage(5)>>,
                      <<ErrorMessage(InitErrorMessage(category))>> >>,
                   <<InitializerOf(category)>>)
        ELSE RunOf(<< <<ProgressMessage(0)>>, <<ProgressMessage(5)>>, <<ProgressMessage(15)>>,
                      IF r.ok THEN <<ProgressMessage(100), CompleteMessage(r.blob)>>
                      ELSE <<ErrorMessage(r.error)>> >>,
                   <<InitializerOf(category)>> \o r.calls)

\* The fallback of convertWithWorkerFallback: the dynamic import, then
\* convert(convertibleFile, onProgress, settings) and the catch block around
\* both. `ready` is whether the category's engine is already initialized on
\* the main thread.
convert(request, engine, ready) ==
    LET category == detectCategory(request.file)
        r == ConvertBy(category, request.to, engine, ready)
    IN  IF engine = "import fails"
        THEN RunOf(<< <<ErrorMessage(ImportErrorMessage)>> >>, <<>>)
        ELSE IF ~Truthy(request.to)
        THEN RunOf(<< <<ErrorMessage("Target format not set for file: " \o NameOf(request.file))>> >>, <<>>)
        ELSE IF category = NoCategory
        THEN RunOf(<< <<ErrorMessage("Unable to detect format category for file: " \o NameOf(request.file)
                                     \o ". Extension: " \o request.from
                                     \o ", MIME type: " \o request.file.type)>> >>,
                   <<>>)
        ELSE RunOf(<< <<ProgressMessage(0), ProgressMessage(10)>>,
                      IF r.ok THEN <<ProgressMessage(100), CompleteMessage(r.blob)>>
                      ELSE <<ErrorMessage("Conversion failed: " \o r.error)>> >>,
                   r.calls)

----------------------------------------------------------------------------
\* One convertWithWorkerFallback invocation, step by step

\* Requests handed to convertWithWorkerFallback: a File, the source
\* extension addFiles derived from it, and a target extension.
BoundaryFiles ==
    { [ext |-> "png", type |-> "image/png"],
      [ext |-> "pcx", type |-> ""],
      [ext |-> "mp3", type |-> "audio/mpeg"],
      [ext |-> "md", type |-> "text/markdown"] }

BoundaryTargets == {"jpeg", "wav", "html", ""}

Requests ==
    { [file |-> file, from |-> NewFile(1, file).from, to |-> to] :
        file \in BoundaryFiles, to \in BoundaryTargets }

\* What `new Worker(...)` and worker.postMessage(...) may do.
WorkerCreations == {"ok", "constructor throws", "postMessage throws"}
CreationErrorMessage == "The operation is insecure."

\* message of the ErrorEvent of an uncaught error in the worker.
WorkerErrorEvents == {"", "Script error."}

\* The invocation before it is made. mode: "worker" or "main"; run: what
\* the worker script or convert() will do; worker: the Worker object;
\* posted / received: 'convert' messages posted by the client and handled
\* by the worker script; pc: tasks of the run done so far; outbox: messages
\* posted by the worker and not yet delivered; errorEvent: the ErrorEvent
\* waiting to be dispatched to worker.onerror; progress: the values passed
\* to onProgress; terminals: terminal outcomes handled by the client;
\* resolves: calls of resolve(); late: onProgress was called after the
\* promise had resolved.
IdleSession ==
    [phase |-> "idle", mode |-> "none", request |-> Null, run |-> RunOf(<<>>, <<>>),
     worker |-> "none", posted |-> 0, received |-> 0, pc |-> 0, crashed |-> FALSE,
     outbox |-> <<>>, errorEvent |-> Null, progress |-> <<>>, terminals |-> 0,
     resolves |-> 0, result |-> Null, late |-> FALSE]

\* ConversionResult values.
Success(blob) == [success |-> TRUE, blob |-> blob, error |-> Undefined]
Failure(error) == [success |-> FALSE, blob |-> Undefined, error |-> error]

\* resolve(result): only the first call settles the promise.
Resolve(s, result) ==
    [s EXCEPT !.resolves = @ + 1, !.phase = "resolved",
              !.result = IF s.phase = "pending" THEN result ELSE @]

\* Faulty teardown: the worker is left running.
Terminate_Leak(s) == s

\* worker?.terminate(); worker = null. Terminating a worker discards the
\* messages it has posted and that were not delivered yet.
Terminate(s) ==
    IF s.worker = "running"
    THEN [s EXCEPT !.worker = "terminated", !.outbox = <<>>]
    ELSE s

\* onProgress?.(progress)
CallOnProgress(s, progress) ==
    [s EXCEPT !.progress = Append(@, progress), !.late = @ \/ s.phase = "resolved"]

\* worker.onmessage
OnMessage(s, message) ==
    CASE message.type = "progress" -> CallOnProgress(s, message.progress)
      [] message.type = "complete" ->
            Resolve(Terminate([s EXCEPT !.terminals = @ + 1]), Success(message.blob))
      [] message.type = "error" ->
            Resolve(Terminate([s EXCEPT !.terminals = @ + 1]), Failure(message.error))
      [] OTHER -> s

\* worker.onerror
OnError(s, message) ==
    Resolve(Terminate([s EXCEPT !.terminals = @ + 1]),
            Failure(OrElse(message, "Unknown worker error")))

\* catch block of runConversion.
OnCreationError(s, message) ==
    Resolve(Terminate([s EXCEPT !.terminals = @ + 1]),
            Failure("Failed to create worker: " \o message))

\* The fallback: an onProgress call of convert(), convert() returning its
\* Blob, or the catch block.
OnFallbackEvent(s, event) ==
    CASE event.type = "progress" -> CallOnProgress(s, event.progress)
      [] event.type = "complete" -> Resolve([s EXCEPT !.terminals = @ + 1], Success(event.blob))
      [] event.type = "error" -> Resolve([s EXCEPT !.terminals = @ + 1], Failure(event.error))
      [] OTHER -> s

\* The events of one task of the fallback, handled in order.
OnFallbackEvents(s, events) ==
    LET after[i \in 0..Len(events)] ==
            IF i = 0 THEN s ELSE OnFallbackEvent(after[i - 1], events[i])
    IN  after[Len(events)]

----------------------------------------------------------------------------
\* Engine loaders and followed calls, before anything happened

\* No convertAudio call is being followed.
IdleFFmpeg == [kind |-> "none"]

IdleLoader == [kind |-> "none"]

NoCall == [entry |-> "none"]

----------------------------------------------------------------------------
\* Initial state: the store as created, in an environment with or without
\* Web Workers.

InitStore ==
    /\ files = <<>>
    /\ isConverting = FALSE
    /\ globalSettings = defaultSettings
    /\ nextId = 1
    /\ runs = <<>>
    /\ workerSupported \in BOOLEAN

Init ==
    /\ InitStore
    /\ session = IdleSession
    /\ ffmpeg = IdleFFmpeg
    /\ loader = IdleLoader
    /\ call = NoCall

----------------------------------------------------------------------------
\* Store commands

\* The set() of addFiles: one task per file, appended.
addFiles(batch) ==
    /\ nextId + Len(batch) - 1 <= MaxIds
    /\ files' = files \o [i \in 1..Len(batch) |-> NewFile(nextId + i - 1, batch[i])]
    /\ nextId' = nextId + Len(batch)

AddFiles(batch) ==
    /\ addFiles(batch)
    /\ UNCHANGED <<isConverting, globalSettings, runs, workerSupported, session, loader, call, ffmpeg>>

RemoveFile(id) ==
    /\ LET index == IndexOfId(files, id)
       IN  files' = IF index = 0 THEN files
                    ELSE SubSeq(files, 1, index - 1) \o SubSeq(files, index + 1, Len(files))
    /\ UNCHANGED <<isConverting, globalSettings, nextId, runs, workerSupported, session, loader, call, ffmpeg>>

UpdateFile(id, updates) ==
    /\ files' = IF HasId(files, id)
                THEN [files EXCEPT ![IndexOfId(files, id)] = ObjectAssign(@, updates)]
                ELSE files
    /\ UNCHANGED <<isConverting, globalSettings, nextId, runs, workerSupported, session, loader, call, ffmpeg>>

SetOutputFormat(id, format) ==
    /\ files' = Patch(files, id, [to |-> format])
    /\ UNCHANGED <<isConverting, globalSettings, nextId, runs, workerSupported, session, loader, call, ffmpeg>>

SetGlobalSettings(settings) ==
    /\ globalSettings' = ObjectAssign(globalSettings, settings)
    /\ UNCHANGED <<files, isConverting, nextId, runs, workerSupported, session, loader, call, ffmpeg>>

\* startConversion up to its await: the guard, the selection, the settings
\* snapshot, the first set() and one convertWithWorkerFallback call per
\* selected file.
StartConversion ==
    LET pendingFiles == SelectSeq(files, IsReady)
        settings == SnapshotSettings(globalSettings)
        selected == { pendingFiles[k].id : k \in 1..Len(pendingFiles) }
    IN  /\ IF CanStart(isConverting, pendingFiles)
           THEN /\ isConverting' = TRUE
                /\ files' = [i \in 1..Len(files) |->
                                IF files[i].id \in selected
                                THEN MarkConverting(files[i]) ELSE files[i]]
                /\ runs' = Append(runs,
                        [settings |-> settings, ids |-> selected,
                         invs |-> [k \in 1..Len(pendingFiles) |-> NewInvocation(pendingFiles[k])]])
           ELSE UNCHANGED <<files, isConverting, runs>>
        /\ UNCHANGED <<globalSettings, nextId, workerSupported, session, loader, call, ffmpeg>>

ClearAll ==
    /\ files' = <<>>
    /\ isConverting' = FALSE
    /\ UNCHANGED <<globalSettings, nextId, runs, workerSupported, session, loader, call, ffmpeg>>

\* The retry action of the error state: back to pending, error and result
\* cleared, through updateFile.
RetryUpdates == [status |-> "pending", error |-> Null, result |-> Null]

Retry(id) ==
    /\ HasId(files, id)
    /\ FileOfId(files, id).status = "error"
    /\ files' = [files EXCEPT ![IndexOfId(files, id)] = ObjectAssign(@, RetryUpdates)]
    /\ UNCHANGED <<isConverting, globalSettings, nextId, runs, workerSupported, session, loader, call, ffmpeg>>

----------------------------------------------------------------------------
\* Callbacks of the execution boundary. r is the position of the run in
\* `runs`, k the position of the invocation in the run.

Running(r, k) ==
    /\ r \in 1..Len(runs)
    /\ k \in 1..Len(runs[r].invs)

\* Faulty fan-in: the flag is not reset when the run returns.
Settle_NoReset(r, k) ==
    LET run == [runs[r] EXCEPT !.invs = SubSeq(@, 1, k - 1) \o SubSeq(@, k + 1, Len(@))]
    IN  /\ runs' = IF AllSettled(run)
                   THEN SubSeq(runs, 1, r - 1) \o SubSeq(runs, r + 1, Len(runs))
                   ELSE [runs EXCEPT ![r] = run]
        /\ UNCHANGED isConverting

\* The invocation settles and leaves the run; when it was the run's last
\* one, Promise.allSettled resolves and startConversion resets the flag and
\* returns.
Settle(r, k) ==
    LET run == [runs[r] EXCEPT !.invs = SubSeq(@, 1, k - 1) \o SubSeq(@, k + 1, Len(@))]
    IN  IF AllSettled(run)
        THEN /\ runs' = SubSeq(runs, 1, r - 1) \o SubSeq(runs, r + 1, Len(runs))
             /\ isConverting' = FALSE
        ELSE /\ runs' = [runs EXCEPT ![r] = run]
             /\ UNCHANGED isConverting

\* The next progress event of the invocation. The last one, 100, is
\* reported once the engine call has succeeded.
Progress(r, k) ==
    /\ Running(r, k)
    /\ LET inv == runs[r].invs[k]
           steps == ProgressSteps(workerSupported)
       IN  /\ inv.sent < Len(steps)
           /\ files' = OnProgress(files, inv.id, steps[inv.sent + 1])
           /\ runs' = [runs EXCEPT ![r].invs[k].sent = inv.sent + 1]
    /\ UNCHANGED <<isConverting, globalSettings, nextId, workerSupported, session, loader, call, ffmpeg>>

\* The engine succeeded and 100 was reported: the 'complete' message, or
\* convert() returning its Blob.
Complete(r, k) ==
    /\ Running(r, k)
    /\ LET inv == runs[r].invs[k]
           result == [success |-> TRUE, blob |-> BlobOf(inv.to), error |-> Undefined]
       IN  /\ inv.sent = Len(ProgressSteps(workerSupported))
           /\ files' = OnResult(files, inv.id, result)
    /\ Settle(r, k)
    /\ UNCHANGED <<globalSettings, nextId, workerSupported, session, loader, call, ffmpeg>>

\* The conversion failed before 100 was reported: the 'error' message or
\* worker.onerror, or convert() throwing on the main thread.
Fail(r, k, message) ==
    /\ Running(r, k)
    /\ LET inv == runs[r].invs[k]
           result == [success |-> FALSE, blob |-> Undefined, error |-> message]
       IN  /\ inv.sent < Len(ProgressSteps(workerSupported))
           /\ files' = OnResult(files, inv.id, result)
    /\ Settle(r, k)
    /\ UNCHANGED <<globalSettings, nextId, workerSupported, session, loader, call, ffmpeg>>

\* convertWithWorkerFallback rejected: the catch block.
Throw(r, k, message) ==
    /\ Running(r, k)
    /\ LET inv == runs[r].invs[k]
       IN  /\ inv.sent < Len(ProgressSteps(workerSupported))
           /\ files' = OnThrow(files, inv.id, message)
    /\ Settle(r, k)
    /\ UNCHANGED <<globalSettings, nextId, workerSupported, session, loader, call, ffmpeg>>

----------------------------------------------------------------------------
\* Specifications

Callbacks ==
    \E r \in 1..Len(runs) : \E k \in 1..Len(runs[r].invs) :
        \/ Progress(r, k)
        \/ Complete(r, k)
        \/ \E message \in FailureMessages(workerSupported) : Fail(r, k, message)
        \/ \E message \in ThrownErrors : Throw(r, k, message)

\* The commands the user interface issues.
Commands ==
    \/ \E batch \in Batches : AddFiles(batch)
    \/ \E id \in Ids : RemoveFile(id)
    \/ \E id \in Ids, format \in OutputChoices : SetOutputFormat(id, format)
    \/ \E settings \in SettingsChoices : SetGlobalSettings(settings)
    \/ StartConversion
    \/ ClearAll
    \/ \E id \in Ids : Retry(id)

Next ==
    \/ Commands
    \/ Callbacks

Spec == Init /\ [][Next]_vars

\* The store driven through its public updateFile as well (it has no caller
\* in the user interface). The commands that touch neither a status nor the
\* flag are left out.
NextUpdateFile ==
    \/ \E batch \in Batches : AddFiles(batch)
    \/ \E id \in Ids : RemoveFile(id)
    \/ StartConversion
    \/ ClearAll
    \/ \E id \in Ids, updates \in UpdateChoices : UpdateFile(id, updates)
    \/ Callbacks

SpecUpdateFile == Init /\ [][NextUpdateFile]_vars

----------------------------------------------------------------------------
\* Vocabulary of the properties

\* Ids of the tasks in a file list, in list order.
IdsOf(fs) == [i \in 1..Len(fs) |-> fs[i].id]

Present(fs) == { fs[i].id : i \in 1..Len(fs) }

StatusOf(fs, id) == FileOfId(fs, id).status

\* The invocations in flight, run by run.
InFlight(rs) == UNION { { rs[r].invs[k] : k \in 1..Len(rs[r].invs) } : r \in 1..Len(rs) }

InFlightIds(rs) == { inv.id : inv \in InFlight(rs) }

\* A step in which startConversion dispatched a run.
Dispatched == Len(runs') = Len(runs) + 1

\* The ids a dispatching step handed to the execution boundary.
DispatchedIds == LET run == runs'[Len(runs')] IN { run.invs[k].id : k \in 1..Len(run.invs) }

----------------------------------------------------------------------------
\* C1. At-most-one-run guard: while isConverting is true a startConversion
\* call is a no-op: no step taken from such a state dispatches a run (hands
\* a task to convertWithWorkerFallback) or moves a task to converting, so
\* two start() calls in a row produce one invocation per selected task.
C1_StartGuard ==
    [][isConverting =>
        /\ ~Dispatched
        /\ \A id \in Present(files) \cap Present(files') :
              StatusOf(files', id) = "converting" => StatusOf(files, id) = "converting"]_vars

\* A run is in progress and a further task is ready: a second start() would
\* find work.
C1_Witness ==
    /\ isConverting
    /\ runs # <<>>
    /\ \E i \in 1..Len(files) : files[i].status = "pending" /\ files[i].to # Null

\* C2. State-machine legality: under the commands of the user interface and
\* the callbacks, in any order, every change of a task's status is one of
\* pending -> converting, converting -> complete, converting -> error and
\* error -> pending; a complete task keeps its status until it is removed.
LegalTransitions ==
    { <<"pending", "converting">>, <<"converting", "complete">>,
      <<"converting", "error">>, <<"error", "pending">> }

C2_LegalStatusSequences ==
    [][\A id \in Present(files) \cap Present(files') :
          \/ StatusOf(files', id) = StatusOf(files, id)
          \/ <<StatusOf(files, id), StatusOf(files', id)>> \in LegalTransitions]_vars

\* Both terminal branches have been taken: one task complete, one in error.
C2_Witness ==
    /\ \E i \in 1..Len(files) : files[i].status = "complete"
    /\ \E i \in 1..Len(files) : files[i].status = "error"

\* C3. Fan-in, as the contract words it: isConverting goes from true to
\* false only when no invocation dispatched by any startConversion call is
\* still in flight. clearAll's force-clear breaks it by design.
C3_FlagClearsOnlyWhenAllSettled ==
    [][(isConverting /\ ~isConverting') => InFlight(runs') = {}]_vars

\* C3. The running flag clears only once every dispatched task has settled:
\* the step in which a startConversion call returns (its allSettled resolved)
\* takes isConverting from true to false only when no invocation dispatched
\* by any startConversion call is still in flight. clearAll's own reset is
\* left aside, so the statement is implied by the one above.
C3_RunEndClearsOnlyWhenAllSettled ==
    [][(isConverting /\ ~isConverting' /\ Len(runs') < Len(runs)) => InFlight(runs') = {}]_vars

C5_CompleteIsFinal ==
    [][\A id \in Present(files) \cap Present(files') :
          StatusOf(files, id) = "complete" => StatusOf(files', id) = "complete"]_vars

\* A callback step: an invocation reported progress or settled.
Callback == runs' # runs /\ ~Dispatched

\* C6. Per-task isolation: a progress or completion event of one invocation
\* changes no record but the one of that invocation's task, keeps the
\* membership and order of the list, and leaves every other invocation in
\* flight as it was, so that a failure or exception of one invocation takes
\* no sibling out of its run.
C6_PerTaskIsolation ==
    [][Callback =>
        \E inv \in InFlight(runs) :
            /\ IdsOf(files') = IdsOf(files)
            /\ \A i \in 1..Len(files) : files[i].id # inv.id => files'[i] = files[i]
            /\ InFlight(runs) \ {inv} \subseteq InFlight(runs')
            /\ \A r \in 1..Len(runs') : \E q \in 1..Len(runs) :
                  /\ runs'[r].ids = runs[q].ids
                  /\ \A k \in 1..Len(runs'[r].invs) :
                        runs'[r].invs[k].id # inv.id
                        => Includes(runs[q].invs, runs'[r].invs[k])]_vars

\* One task of a run has failed while a sibling of the same run is still in
\* flight and converting.
C6_Witness ==
    \E r \in 1..Len(runs) : \E i, j \in 1..Len(files) :
        /\ {files[i].id, files[j].id} \subseteq runs[r].ids
        /\ files[i].status = "error"
        /\ files[j].status = "converting"
        /\ files[j].id \in InFlightIds(runs)

\* C7. Every failure is recorded: when an invocation settles before it has
\* reported its last progress value (a failure result or a thrown
\* exception) and its task is still in the store, the task has status error
\* and a non-null error message after the step. Every callback is defined on
\* every state, which is how startConversion never rejects.
C7_FailuresAreRecorded ==
    [][\A inv \in InFlight(runs) :
          (/\ inv.id \notin InFlightIds(runs')
           /\ inv.sent < Len(ProgressSteps(workerSupported))
           /\ inv.id \in Present(files'))
          => /\ StatusOf(files', inv.id) = "error"
             /\ FileOfId(files', inv.id).error \notin {Null, Undefined}]_vars

\* A worker failed without a message and the task carries the default one.
C7_Witness ==
    \E i \in 1..Len(files) :
        files[i].status = "error" /\ files[i].error = "Conversion failed"

\* The settings of the run that holds the invocation of task `id`.
SettingsOf(rs, id) ==
    LET r == CHOOSE q \in 1..Len(rs) : \E k \in 1..Len(rs[q].invs) : rs[q].invs[k].id = id
    IN  rs[r].settings

\* C8. Settings snapshot: a dispatching step gives the new run the global
\* settings of the state it was called in, and no step, setGlobalSettings
\* included, changes the settings of an invocation that stays in flight.
C8_SettingsSnapshot ==
    [][/\ Dispatched => runs'[Len(runs')].settings = globalSettings
       /\ \A id \in InFlightIds(runs) \cap InFlightIds(runs') :
             SettingsOf(runs', id) = SettingsOf(runs, id)]_vars

\* The global settings were edited while a run was in flight: the run holds
\* settings that differ from the current ones.
C8_Witness ==
    \E r \in 1..Len(runs) :
        runs[r].invs # <<>> /\ runs[r].settings # globalSettings

\* The ids startConversion's filter selects in a file list.
Selected(fs) == { fs[i].id : i \in { j \in 1..Len(fs) : fs[j].status = "pending" /\ fs[j].to # Null } }

\* C10. Selection by start: a dispatching step hands to the execution
\* boundary exactly the tasks that were pending with a non-null target,
\* moves those to converting with progress 0, and leaves every other record
\* (pending without target, converting, complete, error) and the list order
\* unchanged; isConverting becomes true only in a step that dispatches, and
\* a dispatch selects at least one task.
C10_SelectionByStart ==
    [][/\ Dispatched =>
            /\ DispatchedIds = Selected(files)
            /\ Selected(files) # {}
            /\ Len(runs'[Len(runs')].invs) = Cardinality(Selected(files))
            /\ IdsOf(files') = IdsOf(files)
            /\ \A i \in 1..Len(files) :
                  IF files[i].id \in Selected(files)
                  THEN files'[i].status = "converting" /\ files'[i].progress = 0
                  ELSE files'[i] = files[i]
       /\ (~isConverting /\ isConverting') => Dispatched]_vars

\* A run is in flight next to a pending task without target, which no
\* invocation carries.
C10_Witness ==
    /\ isConverting
    /\ \E i, j \in 1..Len(files) :
          /\ files[i].status = "pending" /\ files[i].to = Null
          /\ files[i].id \notin InFlightIds(runs)
          /\ files[j].status = "converting"
          /\ files[j].id \in InFlightIds(runs)

----------------------------------------------------------------------------
\* Liveness

\* Some callback of the invocation of task `id`.
CallbackOf(id) ==
    \E r \in 1..Len(runs) : \E k \in 1..Len(runs[r].invs) :
        /\ runs[r].invs[k].id = id
        /\ \/ Progress(r, k)
           \/ Complete(r, k)
           \/ \E message \in FailureMessages(workerSupported) : Fail(r, k, message)
           \/ \E message \in ThrownErrors : Throw(r, k, message)

\* Every invocation eventually settles: the worker, or the engine call on
\* the main thread, keeps running until it has posted its terminal message.
\* setOutputFormat and setGlobalSettings, which touch neither a status, the
\* flag nor a run, are left out.
NextFair ==
    \/ \E batch \in Batches : AddFiles(batch)
    \/ \E id \in Ids : RemoveFile(id)
    \/ StartConversion
    \/ ClearAll
    \/ \E id \in Ids : Retry(id)
    \/ Callbacks

SpecFair == Init /\ [][NextFair]_vars /\ \A id \in Ids : WF_vars(CallbackOf(id))

\* The run that dispatched the tasks S has returned, the flag is down, and
\* no task of S is left converting by it: a task of S that is converting has
\* been dispatched again and has an invocation in flight.
RunIsOver(S) ==
    /\ ~isConverting
    /\ \A r \in 1..Len(runs) : runs[r].ids # S
    /\ \A id \in S \cap Present(files) :
          StatusOf(files, id) = "converting" => id \in InFlightIds(runs)

C9_NoTaskOfRunConverting ==
    \A S \in (SUBSET Ids) \ {{}} :
        (\E r \in 1..Len(runs) : runs[r].ids = S)
        ~> (/\ ~isConverting
            /\ \A id \in S \cap Present(files) : StatusOf(files, id) # "converting")

----------------------------------------------------------------------------
\* Steps of one convertWithWorkerFallback invocation

\* runConversion up to the end of its executor: the worker is created, the
\* handlers are installed and the one 'convert' message is posted, or the
\* catch block resolves with the creation failure.
RunConversion(request, engine, creation) ==
    /\ session.phase = "idle"
    /\ workerSupported
    /\ LET s == [IdleSession EXCEPT !.phase = "pending", !.mode = "worker",
                                    !.request = request, !.run = handleConvert(request, engine)]
       IN  session' =
               CASE creation = "ok" -> [s EXCEPT !.worker = "running", !.posted = 1]
                 [] creation = "constructor throws" -> OnCreationError(s, CreationErrorMessage)
                 [] creation = "postMessage throws" ->
                        OnCreationError([s EXCEPT !.worker = "running"], CreationErrorMessage)
    /\ UNCHANGED <<storeVars, loader, call, ffmpeg>>

\* convertWithWorkerFallback where Worker is undefined, up to its first
\* await.
Fallback(request, engine, ready) ==
    /\ session.phase = "idle"
    /\ ~workerSupported
    /\ session' = [IdleSession EXCEPT !.phase = "pending", !.mode = "main",
                                      !.request = request, !.run = convert(request, engine, ready)]
    /\ UNCHANGED <<storeVars, loader, call, ffmpeg>>

\* The worker script runs its next task: the first one handles the
\* 'convert' message, the later ones resume handleConvert after an await.
WorkerTask ==
    /\ session.mode = "worker"
    /\ session.worker = "running"
    /\ ~session.crashed
    /\ session.pc < Len(session.run.tasks)
    /\ session.pc = 0 => session.received < session.posted
    /\ session' = [session EXCEPT !.pc = @ + 1,
                                  !.received = IF session.pc = 0 THEN @ + 1 ELSE @,
                                  !.outbox = @ \o session.run.tasks[session.pc + 1]]
    /\ UNCHANGED <<storeVars, loader, call, ffmpeg>>

\* The worker script fails to load, or an uncaught error ends it: it posts
\* nothing more and an ErrorEvent is queued for the Worker object.
WorkerCrash(message) ==
    /\ session.mode = "worker"
    /\ session.worker = "running"
    /\ ~session.crashed
    /\ session.pc < Len(session.run.tasks)
    /\ session' = [session EXCEPT !.crashed = TRUE, !.errorEvent = message]
    /\ UNCHANGED <<storeVars, loader, call, ffmpeg>>

\* The next message of the worker is delivered to worker.onmessage.
DeliverMessage ==
    /\ session.mode = "worker"
    /\ session.worker = "running"
    /\ session.outbox # <<>>
    /\ session' = OnMessage([session EXCEPT !.outbox = Tail(@)], Head(session.outbox))
    /\ UNCHANGED <<storeVars, loader, call, ffmpeg>>

\* The ErrorEvent is dispatched to worker.onerror.
DeliverError ==
    /\ session.mode = "worker"
    /\ session.errorEvent # Null
    /\ session' = OnError([session EXCEPT !.errorEvent = Null], session.errorEvent)
    /\ UNCHANGED <<storeVars, loader, call, ffmpeg>>

\* The fallback resumes after an await and runs to the next one.
FallbackTask ==
    /\ session.mode = "main"
    /\ session.phase = "pending"
    /\ session.pc < Len(session.run.tasks)
    /\ session' = OnFallbackEvents([session EXCEPT !.pc = @ + 1],
                                   session.run.tasks[session.pc + 1])
    /\ UNCHANGED <<storeVars, loader, call, ffmpeg>>

NextBoundary ==
    \/ \E request \in Requests, engine \in EngineBehaviours, creation \in WorkerCreations :
            RunConversion(request, engine, creation)
    \/ \E request \in Requests, engine \in EngineBehaviours, ready \in BOOLEAN :
            Fallback(request, engine, ready)
    \/ WorkerTask
    \/ \E message \in WorkerErrorEvents : WorkerCrash(message)
    \/ DeliverMessage
    \/ DeliverError
    \/ FallbackTask

\* One invocation of the execution boundary, in an environment with or
\* without Web Workers.
SpecBoundary == Init /\ [][NextBoundary]_vars

----------------------------------------------------------------------------
\* C13: worker message protocol

\* C13 as stated: whenever the promise of a runConversion call has
\* resolved, the worker has handled exactly one 'convert' request and has
\* been terminated.
C13_ExactlyOneRequest ==
    session.mode = "worker" /\ session.phase = "resolved"
        => session.received = 1 /\ session.worker = "terminated"

\* C13, amended: for every runConversion call the client posts at most one
\* 'convert' request, exactly one unless creating the worker or posting
\* threw, and the worker script handles at most the one that was posted;
\* the client handles no terminal outcome before the promise resolves and
\* exactly one when it has resolved ('complete' with the Blob, 'error' with
\* its message, the ErrorEvent of worker.onerror, or the creation failure
\* of the catch block); resolve is called exactly once; onProgress is never
\* called after the promise resolved; and when the promise has resolved a
\* worker that was created is terminated with nothing left to deliver. A
\* successful result comes from a worker that handled the request.
C13_WorkerProtocol ==
    session.mode = "worker" =>
        /\ session.posted <= 1
        /\ session.received <= session.posted
        /\ ~session.late
        /\ session.phase = "pending" =>
                /\ session.terminals = 0
                /\ session.resolves = 0
                /\ session.posted = 1
                /\ session.worker = "running"
        /\ session.phase = "resolved" =>
                /\ session.terminals = 1
                /\ session.resolves = 1
                /\ session.worker # "running"
                /\ session.outbox = <<>>
                /\ session.posted = 0 <=>
                        session.result = Failure("Failed to create worker: " \o CreationErrorMessage)
                /\ session.result.success =>
                        /\ session.received = 1
                        /\ session.worker = "terminated"
                        /\ session.result.blob = BlobOf(session.request.to)

\* A conversion that succeeded through the worker: one request handled, the
\* four progress values delivered, the Blob returned, the worker terminated.
C13_Witness ==
    /\ session.mode = "worker"
    /\ session.phase = "resolved"
    /\ session.received = 1
    /\ session.progress = <<0, 5, 15, 100>>
    /\ session.result = Success(BlobOf("jpeg"))
    /\ session.worker = "terminated"

----------------------------------------------------------------------------
\* C14: progress ordering

C14_StoredProgress ==
    [][\A i \in 1..Len(files), j \in 1..Len(files') :
            /\ files[i].id = files'[j].id
            /\ files[i].status = "converting"
            /\ files'[j].status = "converting"
            => files[i].progress <= files'[j].progress]_vars

C14_ErrorShowsLessThanHundred ==
    \A i \in 1..Len(files) : files[i].status = "error" => files[i].progress < 100

----------------------------------------------------------------------------
\* The two paths of convertWithWorkerFallback as functions of the request

\* The events of a run, in order.
EventsOf(run) ==
    LET upTo[i \in 0..Len(run.tasks)] ==
            IF i = 0 THEN <<>> ELSE upTo[i - 1] \o run.tasks[i]
    IN  upTo[Len(run.tasks)]

\* What the caller of convertWithWorkerFallback sees of a run that is not
\* interrupted: the values passed to onProgress and the ConversionResult;
\* with it the category the path chose and the engine entry points called.
OutcomeOf(run, category) ==
    LET events == EventsOf(run)
        progress == SelectSeq(events, LAMBDA e : e.type = "progress")
        last == events[Len(events)]
    IN  [category |-> category,
         progress |-> [i \in 1..Len(progress) |-> progress[i].progress],
         result |-> IF last.type = "complete" THEN Success(last.blob) ELSE Failure(last.error),
         calls |-> run.calls]

\* A request and an engine behaviour, before the call.
InitDispatch ==
    /\ InitStore
    /\ session = IdleSession
    /\ ffmpeg = IdleFFmpeg
    /\ loader = IdleLoader
    /\ call \in { [entry |-> "convertWithWorkerFallback", phase |-> "called",
                   request |-> request, engine |-> engine, worker |-> Null, main |-> Null] :
                  request \in Requests, engine \in EngineBehaviours }

\* convertWithWorkerFallback(request) run to its end where Worker exists
\* (runConversion and the worker script) and where it does not (convert on
\* the main thread), each in a context where no engine is initialized yet.
ConvertWithWorkerFallback ==
    /\ call.entry = "convertWithWorkerFallback"
    /\ call.phase = "called"
    /\ call' = [call EXCEPT
                   !.phase = "returned",
                   !.worker = OutcomeOf(handleConvert(call.request, call.engine),
                                        WorkerDetectCategory(call.request.from, call.request.file.type)),
                   !.main = OutcomeOf(convert(call.request, call.engine, FALSE),
                                      detectCategory(call.request.file))]
    /\ UNCHANGED <<storeVars, session, loader, ffmpeg>>

SpecDispatch == InitDispatch /\ [][ConvertWithWorkerFallback]_vars

\* C15 as stated: for the same request and the same engine behaviour the
\* worker path and the fallback path of convertWithWorkerFallback give the
\* same verdict, choose the same adapter category, report the same error
\* message on failure, and touch an engine in the same cases.
C15_FallbackEquivalence ==
    call.entry = "convertWithWorkerFallback" /\ call.phase = "returned" =>
        /\ call.worker.result.success = call.main.result.success
        /\ call.worker.category = call.main.category
        /\ call.worker.result.error = call.main.result.error
        /\ (call.worker.calls = <<>>) = (call.main.calls = <<>>)

\* C15, part by part.
C15_SameVerdict ==
    call.entry = "convertWithWorkerFallback" /\ call.phase = "returned" =>
        call.worker.result.success = call.main.result.success

C15_SameCategory ==
    call.entry = "convertWithWorkerFallback" /\ call.phase = "returned" =>
        call.worker.category = call.main.category

C15_SameErrorMessage ==
    call.entry = "convertWithWorkerFallback" /\ call.phase = "returned" =>
        call.worker.result.error = call.main.result.error

C15_SameChecksBeforeEngine ==
    call.entry = "convertWithWorkerFallback" /\ call.phase = "returned" =>
        (call.worker.calls = <<>>) = (call.main.calls = <<>>)

\* C19 as stated: a request whose target extension is empty fails on either
\* path with the target-format-missing error, before any progress is
\* emitted and before any engine adapter or engine initializer is invoked.
C19_MissingTargetRefused ==
    /\ call.entry = "convertWithWorkerFallback"
    /\ call.phase = "returned"
    /\ ~Truthy(call.request.to)
    => /\ call.worker.result = Failure("Target format not set for file: " \o NameOf(call.request.file))
       /\ call.worker.progress = <<>>
       /\ call.worker.calls = <<>>
       /\ call.main.result = Failure("Target format not set for file: " \o NameOf(call.request.file))
       /\ call.main.progress = <<>>
       /\ call.main.calls = <<>>

\* C19 on the main thread alone, where convert() checks file.to first.
C19_MissingTargetRefusedByConvert ==
    /\ call.entry = "convertWithWorkerFallback"
    /\ call.phase = "returned"
    /\ ~Truthy(call.request.to)
    /\ call.engine # "import fails"
    => /\ call.main.result = Failure("Target format not set for file: " \o NameOf(call.request.file))
       /\ call.main.progress = <<>>
       /\ call.main.calls = <<>>

----------------------------------------------------------------------------
\* Engine loaders: initializeMagick, initializeFFmpeg, initializePandoc

LoaderKinds == {"magick", "ffmpeg", "pandoc"}

\* initPromise and instance when they are null; otherwise they hold the
\* number of the attempt that made them.
NoAttempt == 0

\* Module state of a loader as loaded, with the history of the run:
\* attempts is the sequence of the initializations started so far, each
\* "pending", "ok", "failed" (rejected at an await) or "threw" (failed before
\* its first await); initPromise and instance name the attempt that made
\* them; stage counts the awaits the pending attempt has passed; callers
\* holds for each initialize call how it returned ("memoized", "shared" or
\* "started"), the attempt whose promise it got, and the state of that
\* attempt when the call returned.
NewLoader(kind) ==
    [kind |-> kind, isReady |-> FALSE, isInitializing |-> FALSE, initPromise |-> NoAttempt,
     instance |-> NoAttempt, stage |-> 0, attempts |-> <<>>, callers |-> <<>>]

\* Awaits of the initialization: init() and getVersion() for Pandoc, one
\* call for the others.
AwaitsOf(kind) == IF kind = "pandoc" THEN 2 ELSE 1

\* The first test of initialize: the memoized engine is returned.
IsMemoized(l) ==
    IF l.kind = "magick" THEN l.isReady ELSE l.isReady /\ l.instance # NoAttempt

\* Faulty second test: an in-flight initialization is never recognised.
HasInFlightPromise_Never(l) == FALSE

\* The second test of initialize: isInitializing && initPromise.
HasInFlightPromise(l) == l.isInitializing /\ l.initPromise # NoAttempt

\* Faulty catch block: the flags and the promise are left as they were.
OnInitFailure_NoReset(l) == l

\* The catch block of the initialization.
OnInitFailure(l) ==
    [l EXCEPT !.isReady = FALSE, !.isInitializing = FALSE,
              !.instance = NoAttempt, !.initPromise = NoAttempt]

\* The end of the try block. initializeMagick leaves isInitializing set.
OnInitSuccess(l) ==
    IF l.kind = "magick" THEN [l EXCEPT !.isReady = TRUE]
    ELSE [l EXCEPT !.isReady = TRUE, !.isInitializing = FALSE]

\* The attempt that is pending, 0 when there is none.
PendingAttempt(l) == FirstOf({ a \in 1..Len(l.attempts) : l.attempts[a] = "pending" })

\* Loaders whose initialization creates the engine object before its first
\* await: new FFmpeg(), new Pandoc().
CreatesEngineObject(kind) == kind \in {"ffmpeg", "pandoc"}

\* One initialize call. `throws`: the initialization fails before its first
\* await (creating the engine object throws); the catch block then runs
\* before the rejected promise is assigned to initPromise.
Initialize(throws) ==
    /\ loader.kind \in LoaderKinds
    /\ Len(loader.callers) < MaxCalls
    /\ throws => CreatesEngineObject(loader.kind)
    /\ LET l == loader
           a == Len(l.attempts) + 1
           started == [l EXCEPT !.isInitializing = TRUE, !.attempts = Append(@, "pending"),
                                !.instance = IF l.kind = "magick" THEN @ ELSE a,
                                !.stage = 0]
           caught == [OnInitFailure([started EXCEPT !.instance = l.instance])
                        EXCEPT !.attempts[a] = "threw"]
       IN  loader' =
               IF IsMemoized(l)
               THEN [l EXCEPT !.callers = Append(@,
                        [how |-> "memoized", promise |-> 0, was |-> "ok"])]
               ELSE IF HasInFlightPromise(l)
               THEN [l EXCEPT !.callers = Append(@,
                        [how |-> "shared", promise |-> l.initPromise,
                         was |-> l.attempts[l.initPromise]])]
               ELSE IF throws
               THEN [caught EXCEPT !.initPromise = a,
                                   !.callers = Append(@, [how |-> "started", promise |-> a, was |-> "threw"])]
               ELSE [started EXCEPT !.initPromise = a,
                                    !.callers = Append(@, [how |-> "started", promise |-> a, was |-> "pending"])]
    /\ UNCHANGED <<storeVars, session, call, ffmpeg>>

\* An awaited engine call of the pending initialization resolves.
EngineResolves ==
    /\ loader.kind \in LoaderKinds
    /\ PendingAttempt(loader) # 0
    /\ LET a == PendingAttempt(loader)
           l == [loader EXCEPT !.stage = @ + 1]
       IN  loader' = IF l.stage < AwaitsOf(l.kind) THEN l
                     ELSE [OnInitSuccess(l) EXCEPT !.attempts[a] = "ok"]
    /\ UNCHANGED <<storeVars, session, call, ffmpeg>>

\* An awaited engine call of the pending initialization rejects.
EngineRejects ==
    /\ loader.kind \in LoaderKinds
    /\ PendingAttempt(loader) # 0
    /\ LET a == PendingAttempt(loader)
       IN  loader' = [OnInitFailure(loader) EXCEPT !.attempts[a] = "failed"]
    /\ UNCHANGED <<storeVars, session, call, ffmpeg>>

InitLoader ==
    /\ InitStore
    /\ session = IdleSession
    /\ ffmpeg = IdleFFmpeg
    /\ call = NoCall
    /\ loader \in { NewLoader(kind) : kind \in LoaderKinds }

NextLoader ==
    \/ \E throws \in BOOLEAN : Initialize(throws)
    \/ EngineResolves
    \/ EngineRejects

\* One loader of one execution context and its callers.
SpecLoader == InitLoader /\ [][NextLoader]_vars

\* What a caller of initialize observes: the memoized engine, or the
\* outcome of the attempt whose promise it was given.
ObservedBy(l, c) ==
    IF l.callers[c].how = "memoized" THEN "ok" ELSE l.attempts[l.callers[c].promise]

NoAttemptFailed(l) == \A a \in 1..Len(l.attempts) : l.attempts[a] \in {"pending", "ok"}

\* C16: as long as no initialization has failed, the engine initialization
\* of a loader is started at most once, and exactly once when initialize
\* was called at all: the first caller starts it, callers that arrive
\* while it is pending are given its promise, and callers that arrive after
\* it succeeded return the memoized engine.
C16_InitializedOnce ==
    LET l == loader
    IN  l.kind \in LoaderKinds /\ NoAttemptFailed(l) =>
            /\ Len(l.attempts) <= 1
            /\ Len(l.callers) > 0 => Len(l.attempts) = 1 /\ l.callers[1].how = "started"
            /\ \A c \in 2..Len(l.callers) :
                    \/ /\ l.callers[c].how = "shared"
                       /\ l.callers[c].promise = 1
                       /\ l.callers[c].was = "pending"
                    \/ /\ l.callers[c].how = "memoized"
                       /\ l.attempts[1] = "ok"
            /\ \A c, d \in 1..Len(l.callers) :
                    c < d /\ l.callers[c].how = "memoized" => l.callers[d].how = "memoized"

\* Three calls on one loader: one started the initialization, one shared
\* its promise, one came after the success.
C16_Witness ==
    /\ loader.kind \in LoaderKinds
    /\ Len(loader.callers) = 3
    /\ loader.callers[1].how = "started"
    /\ loader.callers[2].how = "shared"
    /\ loader.callers[3].how = "memoized"
    /\ loader.attempts = <<"ok">>

\* The most recent initialization failed.
LastFailed(l) ==
    Len(l.attempts) > 0 /\ l.attempts[Len(l.attempts)] \in {"failed", "threw"}

\* C17 as stated: after a failed initialization the loader is not ready,
\* not initializing, and holds no memoized promise and no instance.
C17_StateResetAfterFailure ==
    loader.kind \in LoaderKinds /\ LastFailed(loader) =>
        /\ ~loader.isReady
        /\ ~loader.isInitializing
        /\ loader.initPromise = NoAttempt
        /\ loader.instance = NoAttempt

\* C17, amended: when an initialization fails every caller that was given
\* its promise observes the failure; afterwards the loader is not ready,
\* not initializing and holds no instance, and initPromise is null unless
\* the attempt failed before its first await, in which case the rejected
\* promise of that attempt stays in initPromise; no initialize call is ever
\* given the promise of an attempt that had already failed, none returns
\* the memoized engine unless an initialization succeeded, and a call
\* that arrives after a failure starts a fresh attempt.
C17_FailedInitCanBeRetried ==
    LET l == loader
    IN  l.kind \in LoaderKinds =>
            /\ LastFailed(l) =>
                    /\ ~l.isReady
                    /\ ~l.isInitializing
                    /\ l.instance = NoAttempt
                    /\ l.initPromise # NoAttempt =>
                            l.initPromise = Len(l.attempts) /\ l.attempts[l.initPromise] = "threw"
            /\ \A c \in 1..Len(l.callers) :
                    /\ l.callers[c].how = "shared" => l.callers[c].was = "pending"
                    /\ l.callers[c].how = "memoized" =>
                            \E a \in 1..Len(l.attempts) : l.attempts[a] = "ok"
                    /\ l.callers[c].how # "memoized" /\ l.attempts[l.callers[c].promise] \in {"failed", "threw"}
                            => ObservedBy(l, c) \in {"failed", "threw"}
            /\ \A c \in 2..Len(l.callers) :
                    /\ l.callers[c - 1].how # "memoized"
                    /\ l.callers[c].how = "started"
                    => l.callers[c].promise = l.callers[c - 1].promise + 1
            /\ \A a \in 1..Len(l.attempts) :
                    \E c \in 1..Len(l.callers) :
                        l.callers[c].how = "started" /\ l.callers[c].promise = a

\* Two callers shared an initialization that failed at an await; the third
\* call started a fresh one, which succeeded.
C17_Witness ==
    /\ loader.kind \in LoaderKinds
    /\ Len(loader.callers) = 3
    /\ loader.callers[1].how = "started"
    /\ loader.callers[2].how = "shared"
    /\ loader.callers[2].promise = 1
    /\ loader.callers[3].how = "started"
    /\ loader.callers[3].promise = 2
    /\ loader.attempts = <<"failed", "ok">>
    /\ loader.isReady

----------------------------------------------------------------------------
\* Entry points that add files: the store's addFiles called directly,
\* DropZone.handleFiles and DragOverlay.handleDrop

\* File sizes are counted in MiB.
MAX_FILE_SIZE == 2 * 1024

\* Files a user selects or drops: photo.PNG sent as
\* application/octet-stream, notes.xyz, which no descriptor matches, and a
\* PNG of 4 GiB.
UploadFiles ==
    { [ext |-> "PNG", type |-> "application/octet-stream", size |-> 1],
      [ext |-> "xyz", type |-> "", size |-> 1],
      [ext |-> "png", type |-> "image/png", size |-> 4096] }

UploadBatches == UNION { [1..n -> UploadFiles] : n \in 1..MaxBatch }

\* Faulty filter: every file passes.
IsSupported_Always(file) == TRUE

\* const format = detectFormat(file); if (format) ...
IsSupported(file) == detectFormat(file) # NoFormat

\* The call that has just been made, kept for the properties.
CallOf(entry, batch) == [entry |-> entry, batch |-> batch]

\* useConversionStore.getState().addFiles(batch), called directly.
StoreAddFiles(batch) ==
    /\ addFiles(batch)
    /\ call' = CallOf("addFiles", batch)
    /\ UNCHANGED <<isConverting, globalSettings, runs, workerSupported, session, loader, ffmpeg>>

\* handleFiles of DropZone: unsupported files are named in a toast, the
\* supported ones go to addFiles when there is at least one.
HandleFiles(batch) ==
    /\ LET supportedFiles == SelectSeq(batch, IsSupported)
       IN  IF Len(supportedFiles) > 0
           THEN addFiles(supportedFiles)
           ELSE UNCHANGED <<files, nextId>>
    /\ call' = CallOf("handleFiles", batch)
    /\ UNCHANGED <<isConverting, globalSettings, runs, workerSupported, session, loader, ffmpeg>>

\* if (file.size > MAX_FILE_SIZE)
IsBlocked(file) == file.size > MAX_FILE_SIZE

\* The files handleDrop keeps.
IsDroppable(file) == ~IsBlocked(file) /\ IsSupported(file)

\* handleDrop of DragOverlay: files over 2 GiB are blocked, then as
\* handleFiles.
HandleDrop(batch) ==
    /\ LET supportedFiles == SelectSeq(batch, IsDroppable)
       IN  IF Len(supportedFiles) > 0
           THEN addFiles(supportedFiles)
           ELSE UNCHANGED <<files, nextId>>
    /\ call' = CallOf("handleDrop", batch)
    /\ UNCHANGED <<isConverting, globalSettings, runs, workerSupported, session, loader, ffmpeg>>

NextUpload ==
    \/ \E batch \in UploadBatches : StoreAddFiles(batch)
    \/ \E batch \in UploadBatches : HandleFiles(batch)
    \/ \E batch \in UploadBatches : HandleDrop(batch)

SpecUpload == Init /\ [][NextUpload]_vars

\* The files of a batch that match a registry descriptor by extension or by
\* MIME type, in order.
MatchingFiles(batch) == SelectSeq(batch, LAMBDA file : detectFormat(file) # NoFormat)

\* The tasks addFiles creates for a batch when the next id is `id`.
TasksFor(batch, id) == [i \in 1..Len(batch) |-> NewFile(id + i - 1, batch[i])]

----------------------------------------------------------------------------
\* Default target of addFiles, for one file of every registered format

\* The extensions and the MIME types the registry knows.
RegisteredExtensions ==
    UNION { { ALL_FORMATS[k].extensions[i] : i \in 1..Len(ALL_FORMATS[k].extensions) } :
            k \in 1..Len(ALL_FORMATS) }

RegisteredMimeTypes ==
    UNION { { ALL_FORMATS[k].mimeTypes[i] : i \in 1..Len(ALL_FORMATS[k].mimeTypes) } :
            k \in 1..Len(ALL_FORMATS) }

\* One file per registered extension, with no MIME type, and one per
\* registered MIME type, named upload.bin.
RegisteredFiles ==
    { [ext |-> e, type |-> ""] : e \in RegisteredExtensions }
        \cup { [ext |-> "bin", type |-> m] : m \in RegisteredMimeTypes }

\* A file has been chosen and addFiles has not run yet.
InitDefaults ==
    /\ InitStore
    /\ session = IdleSession
    /\ ffmpeg = IdleFFmpeg
    /\ loader = IdleLoader
    /\ call \in { CallOf("chosen", <<file>>) : file \in RegisteredFiles }

AddChosenFile ==
    /\ call.entry = "chosen"
    /\ addFiles(call.batch)
    /\ call' = CallOf("addFiles", call.batch)
    /\ UNCHANGED <<isConverting, globalSettings, runs, workerSupported, session, loader, ffmpeg>>

NextDefaults == AddChosenFile

SpecDefaults == InitDefaults /\ [][NextDefaults]_vars

\* The descriptor can convert to an extension that is not one of its own.
HasOtherOption(format) ==
    \E i \in 1..Len(format.canConvertTo) :
        ~Includes(format.extensions, format.canConvertTo[i])

\* C20: for every registry descriptor whose canConvertTo holds an
\* extension that is not one of its own, the task addFiles creates for a
\* file of that format has a target, and the target is none of the
\* descriptor's extensions.
C20_DefaultTargetDiffersFromSource ==
    \A n \in 1..Len(files) :
        \A k \in 1..Len(ALL_FORMATS) :
            (/\ call.entry = "addFiles"
             /\ Includes(ALL_FORMATS[k].extensions, files[n].from)
             /\ HasOtherOption(ALL_FORMATS[k]))
                => /\ files[n].to # Null
                   /\ ~Includes(ALL_FORMATS[k].extensions, files[n].to)

\* photo.jpeg was added: its task is pending from jpeg with a target that
\* is neither jpg nor jpeg.
C20_Witness ==
    /\ call = CallOf("addFiles", << [ext |-> "jpeg", type |-> ""] >>)
    /\ Len(files) = 1
    /\ files[1].from = "jpeg"
    /\ files[1].status = "pending"
    /\ files[1].to = "png"

----------------------------------------------------------------------------
\* convertAudio on the shared FFmpeg instance: two calls that may overlap,
\* as when one run converts several audio tasks on the main thread

MaxClock == 2
AudioCalls == 1..2

\* Targets the calls are made with; xyz is not in FORMAT_CONFIG.
AudioTargets == {"mp3", "wav", "xyz"}

\* `input_${timestamp}` and `output_${timestamp}.${extension}`.
inputFileName(timestamp) == [prefix |-> "input_", timestamp |-> timestamp, extension |-> ""]

outputFileName(timestamp, extension) ==
    [prefix |-> "output_", timestamp |-> timestamp, extension |-> extension]

\* A convertAudio call that has not been made.
NotCalled ==
    [pc |-> "not called", to |-> "", timestamp |-> 0, outcome |-> "pending",
     failedAt |-> "", created |-> {}, blobOf |-> 0]

\* The instance before any call: an empty virtual filesystem.
NewFFmpeg ==
    [kind |-> "ffmpeg", clock |-> 1, fs |-> {}, calls |-> [c \in AudioCalls |-> NotCalled]]

\* The virtual files with a name, and the filesystem after a write, which
\* replaces the file of that name, and after a delete. A file records the
\* call that wrote it and the call whose audio it holds.
Exists(fs, name) == \E f \in fs : f.name = name

WriteTo(fs, name, c, data) ==
    { f \in fs : f.name # name } \cup { [name |-> name, by |-> c, data |-> data] }

DeleteFrom(fs, name) == { f \in fs : f.name # name }

\* The call whose audio a file holds; 0 when there is no such file.
DataOf(fs, name) == IF Exists(fs, name) THEN (CHOOSE f \in fs : f.name = name).data ELSE 0

InputOf(call_) == inputFileName(call_.timestamp)

OutputOf(call_) == outputFileName(call_.timestamp, call_.to)

\* Faulty cleanup: the files are deleted after a success only.
AfterTry_OnSuccessOnly(outcome) == IF outcome = "returned" THEN "deleteInput" ELSE "done"

\* try { ... } finally { ... }: the finally block runs whatever happened.
AfterTry(outcome) == "deleteInput"

\* The call leaves the try block.
Leave(call_, outcome, step) ==
    [call_ EXCEPT !.outcome = outcome, !.failedAt = step, !.pc = AfterTry(outcome)]

SetCall(c, call_) == ffmpeg' = [ffmpeg EXCEPT !.calls[c] = call_]

SetCallAndFs(c, call_, fs) == ffmpeg' = [ffmpeg EXCEPT !.calls[c] = call_, !.fs = fs]

AudioUnchanged == UNCHANGED <<storeVars, session, loader, call>>

\* convertAudio(file, toFormat, settings) up to `await initializeFFmpeg()`.
ConvertAudio(c, toFormat) ==
    /\ ffmpeg.kind = "ffmpeg"
    /\ ffmpeg.calls[c].pc = "not called"
    /\ IF ToLowerCase(toFormat) \notin FORMAT_CONFIG
       THEN SetCall(c, [ffmpeg.calls[c] EXCEPT !.to = toFormat, !.pc = "done",
                            !.outcome = "thrown", !.failedAt = "validation"])
       ELSE SetCall(c, [ffmpeg.calls[c] EXCEPT !.to = ToLowerCase(toFormat),
                            !.pc = "initializeFFmpeg"])
    /\ AudioUnchanged

\* initializeFFmpeg settles; on success the names are made from Date.now().
InitializeFFmpegSettles(c, ok) ==
    /\ ffmpeg.kind = "ffmpeg"
    /\ ffmpeg.calls[c].pc = "initializeFFmpeg"
    /\ IF ok
       THEN SetCall(c, [ffmpeg.calls[c] EXCEPT !.timestamp = ffmpeg.clock, !.pc = "arrayBuffer"])
       ELSE SetCall(c, [ffmpeg.calls[c] EXCEPT !.pc = "done", !.outcome = "thrown",
                            !.failedAt = "initializeFFmpeg"])
    /\ AudioUnchanged

\* await file.arrayBuffer()
ArrayBufferSettles(c, ok) ==
    /\ ffmpeg.kind = "ffmpeg"
    /\ ffmpeg.calls[c].pc = "arrayBuffer"
    /\ IF ok
       THEN SetCall(c, [ffmpeg.calls[c] EXCEPT !.pc = "writeFile"])
       ELSE SetCall(c, Leave(ffmpeg.calls[c], "thrown", "arrayBuffer"))
    /\ AudioUnchanged

\* await ffmpeg.writeFile(inputFileName, inputData); a failed write may or
\* may not have left a file.
WriteFileSettles(c, ok, leavesFile) ==
    /\ ffmpeg.kind = "ffmpeg"
    /\ ffmpeg.calls[c].pc = "writeFile"
    /\ ok => leavesFile
    /\ LET call_ == ffmpeg.calls[c]
           fs == IF leavesFile THEN WriteTo(ffmpeg.fs, InputOf(call_), c, c) ELSE ffmpeg.fs
           after == IF leavesFile
                    THEN [call_ EXCEPT !.created = @ \cup {InputOf(call_)}] ELSE call_
       IN  IF ok
           THEN SetCallAndFs(c, [after EXCEPT !.pc = "exec"], fs)
           ELSE SetCallAndFs(c, Leave(after, "thrown", "writeFile"), fs)
    /\ AudioUnchanged

\* buildFFmpegArgs and await ffmpeg.exec(args): needs the input file; with
\* -y it overwrites the output file; a failed run may or may not have left
\* an output file.
ExecSettles(c, ok, leavesFile) ==
    /\ ffmpeg.kind = "ffmpeg"
    /\ ffmpeg.calls[c].pc = "exec"
    /\ ok => (leavesFile /\ Exists(ffmpeg.fs, InputOf(ffmpeg.calls[c])))
    /\ LET call_ == ffmpeg.calls[c]
           fs == IF leavesFile
                 THEN WriteTo(ffmpeg.fs, OutputOf(call_), c, DataOf(ffmpeg.fs, InputOf(call_)))
                 ELSE ffmpeg.fs
           after == IF leavesFile
                    THEN [call_ EXCEPT !.created = @ \cup {OutputOf(call_)}] ELSE call_
       IN  IF ok
           THEN SetCallAndFs(c, [after EXCEPT !.pc = "readFile"], fs)
           ELSE SetCallAndFs(c, Leave(after, "thrown", "exec"), fs)
    /\ AudioUnchanged

\* await ffmpeg.readFile(outputFileName) and the Blob made of it.
ReadFileSettles(c, ok) ==
    /\ ffmpeg.kind = "ffmpeg"
    /\ ffmpeg.calls[c].pc = "readFile"
    /\ ok => Exists(ffmpeg.fs, OutputOf(ffmpeg.calls[c]))
    /\ LET call_ == ffmpeg.calls[c]
       IN  IF ok
           THEN SetCall(c, Leave([call_ EXCEPT !.blobOf = DataOf(ffmpeg.fs, OutputOf(call_))],
                                 "returned", ""))
           ELSE SetCall(c, Leave(call_, "thrown", "readFile"))
    /\ AudioUnchanged

\* finally: try { await ffmpeg.deleteFile(inputFileName) } catch {}
DeleteInputFile(c) ==
    /\ ffmpeg.kind = "ffmpeg"
    /\ ffmpeg.calls[c].pc = "deleteInput"
    /\ SetCallAndFs(c, [ffmpeg.calls[c] EXCEPT !.pc = "deleteOutput"],
                    DeleteFrom(ffmpeg.fs, InputOf(ffmpeg.calls[c])))
    /\ AudioUnchanged

\* finally: try { await ffmpeg.deleteFile(outputFileName) } catch {}
DeleteOutputFile(c) ==
    /\ ffmpeg.kind = "ffmpeg"
    /\ ffmpeg.calls[c].pc = "deleteOutput"
    /\ SetCallAndFs(c, [ffmpeg.calls[c] EXCEPT !.pc = "done"],
                    DeleteFrom(ffmpeg.fs, OutputOf(ffmpeg.calls[c])))
    /\ AudioUnchanged

\* A millisecond passes.
Tick ==
    /\ ffmpeg.kind = "ffmpeg"
    /\ ffmpeg.clock < MaxClock
    /\ ffmpeg' = [ffmpeg EXCEPT !.clock = @ + 1]
    /\ AudioUnchanged

InitAudio ==
    /\ InitStore
    /\ session = IdleSession
    /\ loader = IdleLoader
    /\ call = NoCall
    /\ ffmpeg = NewFFmpeg

NextAudio ==
    \/ \E c \in AudioCalls, toFormat \in AudioTargets : ConvertAudio(c, toFormat)
    \/ \E c \in AudioCalls, ok \in BOOLEAN : InitializeFFmpegSettles(c, ok)
    \/ \E c \in AudioCalls, ok \in BOOLEAN : ArrayBufferSettles(c, ok)
    \/ \E c \in AudioCalls, ok \in BOOLEAN, leavesFile \in BOOLEAN : WriteFileSettles(c, ok, leavesFile)
    \/ \E c \in AudioCalls, ok \in BOOLEAN, leavesFile \in BOOLEAN : ExecSettles(c, ok, leavesFile)
    \/ \E c \in AudioCalls, ok \in BOOLEAN : ReadFileSettles(c, ok)
    \/ \E c \in AudioCalls : DeleteInputFile(c)
    \/ \E c \in AudioCalls : DeleteOutputFile(c)
    \/ Tick

SpecAudio == InitAudio /\ [][NextAudio]_vars

\* The call has made its file names and has not settled.
InTry(call_) == call_.pc \in {"arrayBuffer", "writeFile", "exec", "readFile", "deleteInput", "deleteOutput"}

\* C21: once a convertAudio call has returned or thrown, no virtual file
\* under either of its two names holds data it wrote, whichever step
\* failed; and when no call is in progress the virtual filesystem is empty.
C21_NoVirtualFileLeft ==
    ffmpeg.kind = "ffmpeg" =>
        /\ \A c \in AudioCalls :
              ffmpeg.calls[c].pc = "done" =>
                  /\ \A f \in ffmpeg.fs : f.by # c
                  /\ (\A d \in AudioCalls : ~InTry(ffmpeg.calls[d])) =>
                        /\ ~Exists(ffmpeg.fs, InputOf(ffmpeg.calls[c]))
                        /\ ~Exists(ffmpeg.fs, OutputOf(ffmpeg.calls[c]))
        /\ (\A d \in AudioCalls : ~InTry(ffmpeg.calls[d])) => ffmpeg.fs = {}

\* A call whose exec failed after it had written its input file and left
\* a partial output file has thrown, and the filesystem is empty.
C21_Witness ==
    /\ ffmpeg.kind = "ffmpeg"
    /\ ffmpeg.calls[1].pc = "done"
    /\ ffmpeg.calls[1].outcome = "thrown"
    /\ ffmpeg.calls[1].failedAt = "exec"
    /\ ffmpeg.calls[1].created = {inputFileName(1), outputFileName(1, "mp3")}
    /\ ffmpeg.calls[2].pc = "not called"
    /\ ffmpeg.fs = {}

\* C30: two convertAudio calls that overlap on the same FFmpeg instance
\* use distinct virtual input file names and distinct virtual output file
\* names.
C30_DistinctVirtualFileNames ==
    ffmpeg.kind = "ffmpeg" =>
        \A c, d \in AudioCalls :
            (c # d /\ InTry(ffmpeg.calls[c]) /\ InTry(ffmpeg.calls[d])) =>
                /\ InputOf(ffmpeg.calls[c]) # InputOf(ffmpeg.calls[d])
                /\ OutputOf(ffmpeg.calls[c]) # OutputOf(ffmpeg.calls[d])

\* What distinct names are for: no call's write or exec replaces, and no
\* call's cleanup deletes, a file another call wrote.
C30_NoCallTouchesAnothersFile ==
    [][ffmpeg.kind = "ffmpeg" =>
          \A f \in ffmpeg.fs :
              (f \notin ffmpeg'.fs) =>
                  \E c \in AudioCalls :
                      /\ f.by = c
                      /\ ffmpeg'.calls[c] # ffmpeg.calls[c]]_vars

\* And the result: a call that returns a Blob returns its own file's audio.
C30_ReturnsOwnAudio ==
    ffmpeg.kind = "ffmpeg" =>
        \A c \in AudioCalls :
            ffmpeg.calls[c].outcome = "returned" => ffmpeg.calls[c].blobOf = c

----------------------------------------------------------------------------
\* Document conversions to PDF, from every registered document extension

\* One file per extension of DOCUMENT_FORMATS.
DocumentFiles ==
    UNION { { [ext |-> DOCUMENT_FORMATS[k].extensions[i], type |-> ""] :
                i \in 1..Len(DOCUMENT_FORMATS[k].extensions) } :
            k \in 1..Len(DOCUMENT_FORMATS) }

DocumentTargets == {"pdf", "PDF", "html"}

DocumentRequests ==
    { [file |-> file, from |-> NewFile(1, file).from, to |-> to] :
        file \in DocumentFiles, to \in DocumentTargets }

InitDocument ==
    /\ InitStore
    /\ session = IdleSession
    /\ ffmpeg = IdleFFmpeg
    /\ loader = IdleLoader
    /\ call \in { [entry |-> "convertWithWorkerFallback", phase |-> "called",
                   request |-> request, engine |-> engine, worker |-> Null, main |-> Null] :
                  request \in DocumentRequests, engine \in EngineBehaviours }

SpecDocument == InitDocument /\ [][ConvertWithWorkerFallback]_vars

\* The call was a document conversion to PDF whose converter module loaded.
IsPdfRequest ==
    /\ call.entry = "convertWithWorkerFallback"
    /\ call.phase = "returned"
    /\ ToLowerCase(call.request.to) = "pdf"
    /\ call.engine # "import fails"

\* C22 as stated: a document conversion to PDF fails with the explicit
\* not-supported error, from every source format and on either path, and
\* the document engine is neither initialized nor run for the request.
C22_PdfRefusedWithoutEngine ==
    IsPdfRequest =>
        /\ ~call.worker.result.success
        /\ call.worker.result.error = PdfNotSupportedMessage
        /\ call.worker.calls = <<>>
        /\ ~call.main.result.success
        /\ call.main.result.error = "Conversion failed: " \o PdfNotSupportedMessage
        /\ call.main.calls = <<>>

\* What holds: on the main thread the request is refused by convertDocument
\* before any engine call, and in the worker it fails too.
C22_PdfRefusedByConvertDocument ==
    IsPdfRequest =>
        /\ ~call.worker.result.success
        /\ ~call.main.result.success
        /\ call.main.result.error = "Conversion failed: " \o PdfNotSupportedMessage
        /\ call.main.calls = <<>>

----------------------------------------------------------------------------
\* buildFFmpegArgs: the FFmpeg command line of an audio conversion

\* The quality levels of QualitySettings.
MinQuality == 1
MaxQuality == 100

\* FORMAT_CONFIG[format].codec
CodecOf(format) ==
    CASE format = "mp3" -> "libmp3lame"
      [] format = "wav" -> "pcm_s16le"
      [] format = "ogg" -> "libvorbis"
      [] format = "flac" -> "flac"
      [] format = "aac" -> "aac"
      [] format = "m4a" -> "aac"

BITRATE_SUPPORTED_FORMATS == {"mp3", "aac", "m4a", "ogg"}

\* An optional number used as a condition: undefined and 0 are falsy.
TruthyNumber(n) == n # UndefinedNumber /\ n # 0

\* Math.round(x / d) for x >= 0 and d > 0: halves round up.
RoundDiv(x, d) == (2 * x + d) \div (2 * d)

\* Faulty mapping: the interpolated value is truncated.
BitrateOf_Truncated(quality) == 64 + ((quality - 1) * 256) \div 99

\* Math.round(64 + ((settings.quality - 1) / 99) * 256)
BitrateOf(quality) == 64 + RoundDiv((quality - 1) * 256, 99)

\* One argument pair: a flag, and its value as text or as a number followed
\* by a suffix (`${bitrate}k`).
TextArg(flag, text) == [flag |-> flag, text |-> text, number |-> 0]

NumberArg(flag, number, suffix) == [flag |-> flag, text |-> suffix, number |-> number]

\* buildFFmpegArgs(inputFile, outputFile, toFormat, settings) for a format
\* of FORMAT_CONFIG.
buildFFmpegArgs(toFormat, settings) ==
    LET format == ToLowerCase(toFormat)
    IN  <<TextArg("-i", "input"), TextArg("-c:a", CodecOf(format))>>
        \o (IF format \in BITRATE_SUPPORTED_FORMATS /\ TruthyNumber(settings.bitrate)
            THEN <<NumberArg("-b:a", settings.bitrate, "k")>> ELSE <<>>)
        \o (IF TruthyNumber(settings.sampleRate)
            THEN <<NumberArg("-ar", settings.sampleRate, "")>> ELSE <<>>)
        \o (IF ~TruthyNumber(settings.bitrate) /\ format \in BITRATE_SUPPORTED_FORMATS
            THEN <<NumberArg("-b:a", BitrateOf(settings.quality), "k")>> ELSE <<>>)
        \o <<TextArg("-y", ""), TextArg("", "output")>>

\* The settings a conversion may be run with.
AudioSettings ==
    { [mode |-> "simple", quality |-> q, bitrate |-> b, sampleRate |-> s] :
        q \in MinQuality..MaxQuality, b \in {UndefinedNumber, 0, 128}, s \in {UndefinedNumber, 44100} }

InitBitrate ==
    /\ InitStore
    /\ session = IdleSession
    /\ ffmpeg = IdleFFmpeg
    /\ loader = IdleLoader
    /\ call \in { [entry |-> "buildFFmpegArgs", phase |-> "called", toFormat |-> toFormat,
                   settings |-> settings, args |-> <<>>] :
                  toFormat \in FORMAT_CONFIG, settings \in AudioSettings }

BuildFFmpegArgs ==
    /\ call.entry = "buildFFmpegArgs"
    /\ call.phase = "called"
    /\ call' = [call EXCEPT !.phase = "returned",
                            !.args = buildFFmpegArgs(call.toFormat, call.settings)]
    /\ UNCHANGED <<storeVars, session, loader, ffmpeg>>

SpecBitrate == InitBitrate /\ [][BuildFFmpegArgs]_vars

\* The -b:a values of the command line built, in kbps.
BitratesOf(args) ==
    LET pairs == SelectSeq(args, LAMBDA a : a.flag = "-b:a")
    IN  [i \in 1..Len(pairs) |-> pairs[i].number]

\* The case of the claim: no explicit bitrate, a bitrate-capable target.
DerivesBitrate ==
    /\ call.entry = "buildFFmpegArgs"
    /\ call.phase = "returned"
    /\ ~TruthyNumber(call.settings.bitrate)
    /\ call.toFormat \in {"mp3", "aac", "m4a", "ogg"}

----------------------------------------------------------------------------
\* getConvertibleFormats applied to every descriptor of the registry

InitRegistry ==
    /\ InitStore
    /\ session = IdleSession
    /\ ffmpeg = IdleFFmpeg
    /\ loader = IdleLoader
    /\ call \in { [entry |-> "getConvertibleFormats", phase |-> "called",
                   from |-> ALL_FORMATS[k], formats |-> <<>>] : k \in 1..Len(ALL_FORMATS) }

GetConvertibleFormats ==
    /\ call.entry = "getConvertibleFormats"
    /\ call.phase = "called"
    /\ call' = [call EXCEPT !.phase = "returned", !.formats = getConvertibleFormats(call.from)]
    /\ UNCHANGED <<storeVars, session, loader, ffmpeg>>

SpecRegistry == InitRegistry /\ [][GetConvertibleFormats]_vars

\* C24: for every descriptor D of the registry, every extension of
\* D.canConvertTo is an extension of some registered descriptor, and
\* getConvertibleFormats(D) returns one descriptor per listed extension, in
\* order, each carrying the extension it was listed by.
C24_ConvertibleFormatClosure ==
    (call.entry = "getConvertibleFormats" /\ call.phase = "returned") =>
        /\ Len(call.formats) = Len(call.from.canConvertTo)
        /\ \A i \in 1..Len(call.from.canConvertTo) :
              /\ \E j \in 1..Len(ALL_FORMATS) :
                    Includes(ALL_FORMATS[j].extensions, call.from.canConvertTo[i])
              /\ i <= Len(call.formats) =>
                    Includes(call.formats[i].extensions, call.from.canConvertTo[i])

\* getConvertibleFormats(Markdown) returned ten descriptors, the first of
\* them PDF.
C24_Witness ==
    /\ call.entry = "getConvertibleFormats"
    /\ call.phase = "returned"
    /\ Includes(call.from.extensions, "md")
    /\ Len(call.from.canConvertTo) = 10
    /\ Len(call.formats) = 10
    /\ call.formats[1].extensions = <<"pdf">>

----------------------------------------------------------------------------
\* C25: in every reachable state of the store, if some task has status
\* converting then isConverting is true.
C25_ConvertingImpliesFlag ==
    (\E i \in 1..Len(files) : files[i].status = "converting") => isConverting

----------------------------------------------------------------------------
\* The targets the registry offers, handed to the adapter of the category

\* The targets offered for a descriptor: the entries of canConvertTo, and
\* the default target addFiles selects for a file with its first extension.
TargetsOfferedFor(format) ==
    ({ format.canConvertTo[i] : i \in 1..Len(format.canConvertTo) }
        \cup { NewFile(1, [ext |-> format.extensions[1], type |-> ""]).to }) \ {Null}

InitOffers ==
    /\ InitStore
    /\ session = IdleSession
    /\ ffmpeg = IdleFFmpeg
    /\ loader = IdleLoader
    /\ call \in UNION { { [entry |-> "adapter", phase |-> "called", from |-> ALL_FORMATS[k],
                           to |-> to, result |-> Thrown("", <<>>)] :
                          to \in TargetsOfferedFor(ALL_FORMATS[k]) } :
                        k \in 1..Len(ALL_FORMATS) }

\* convertImage, convertAudio or convertDocument, by the category of the
\* source, with an engine that works.
CallAdapter ==
    /\ call.entry = "adapter"
    /\ call.phase = "called"
    /\ call' = [call EXCEPT !.phase = "returned",
                            !.result = ConvertBy(call.from.category, call.to, "ok", FALSE)]
    /\ UNCHANGED <<storeVars, session, loader, ffmpeg>>

SpecOffers == InitOffers /\ [][CallAdapter]_vars

\* C26: every target the registry offers for a source format, the default
\* target included, is accepted by the adapter of the source's category:
\* with a working engine the conversion is not refused.
C26_OfferedTargetsAreAccepted ==
    (call.entry = "adapter" /\ call.phase = "returned") => call.result.ok

\* Part by part: the image registry, the audio registry, the document
\* registry.
C26_ImageTargetsAreAccepted ==
    (call.entry = "adapter" /\ call.phase = "returned" /\ call.from.category = "image")
        => call.result.ok

C26_AudioTargetsAreAccepted ==
    (call.entry = "adapter" /\ call.phase = "returned" /\ call.from.category = "audio")
        => call.result.ok

C26_DocumentTargetsAreAccepted ==
    (call.entry = "adapter" /\ call.phase = "returned" /\ call.from.category = "document")
        => call.result.ok

\* The default target of every source format is accepted.
C26_DefaultTargetIsAccepted ==
    (/\ call.entry = "adapter"
     /\ call.phase = "returned"
     /\ call.to = NewFile(1, [ext |-> call.from.extensions[1], type |-> ""]).to)
        => call.result.ok

----------------------------------------------------------------------------
\* The store with a format selector that offers two targets

\* Formats the selector of a PNG task hands to setOutputFormat.
RetargetChoices == {"jpeg", "webp"}

NextRetarget ==
    \/ \E batch \in Batches : AddFiles(batch)
    \/ \E id \in Ids, format \in RetargetChoices : SetOutputFormat(id, format)
    \/ StartConversion
    \/ Callbacks

SpecRetarget == Init /\ [][NextRetarget]_vars

\* C27: whenever a task has status complete, the target recorded on the task
\* is the target that was passed to the invocation which produced its
\* result: the result is the Blob of a conversion to the task's `to`.
C27_CompleteTargetMatchesResult ==
    \A i \in 1..Len(files) :
        files[i].status = "complete" => files[i].result = BlobOf(files[i].to)

\* The same for a change of target made while the conversion is in flight
\* only: a step of setOutputFormat on a converting task leaves its target
\* as it was dispatched.
C27_TargetKeptWhileConverting ==
    [][\A i \in 1..Len(files) :
          (files[i].status = "converting" /\ i <= Len(files') /\ files'[i].id = files[i].id)
              => files'[i].to = files[i].to]_vars

----------------------------------------------------------------------------
\* C28: a progress or completion event that arrives after its task was
\* removed (removeFile) or after clearAll() is dropped: the callback step
\* of an invocation whose task is no longer in the list leaves the list as
\* it is, so it recreates no task and changes no other task, tasks added
\* after the removal included; and no callback step changes a pending task.
C28_LateEventsAreDropped ==
    [][Callback =>
        \E inv \in InFlight(runs) :
            /\ inv \notin InFlight(runs')
            /\ InFlight(runs) \ {inv} \subseteq InFlight(runs')
            /\ IdsOf(files') = IdsOf(files)
            /\ inv.id \notin Present(files) => files' = files
            /\ \A i \in 1..Len(files) :
                  files[i].status = "pending" => files'[i] = files[i]]_vars

\* An invocation is still in flight for a task that is gone, while a task
\* added after it is pending and another is converting.
C28_Witness ==
    \E inv \in InFlight(runs) :
        /\ inv.id \notin Present(files)
        /\ inv.sent < Len(ProgressSteps(workerSupported))
        /\ \E i \in 1..Len(files) :
              /\ files[i].id > inv.id
              /\ files[i].status = "pending"
              /\ files[i].progress = 0

----------------------------------------------------------------------------
\* C29: at any time at most one invocation of the execution boundary is in
\* flight for a given task id.
C29_OneInvocationPerTask ==
    \A r, q \in 1..Len(runs) :
        \A k \in 1..Len(runs[r].invs) : \A j \in 1..Len(runs[q].invs) :
            runs[r].invs[k].id = runs[q].invs[j].id => (r = q /\ k = j)

\* The same without updateFile among the commands: the user interface's
\* commands alone never dispatch a task twice.
C29_NoRedispatchOfTaskInFlight ==
    [][Dispatched => DispatchedIds \cap InFlightIds(runs) = {}]_vars

====
